---- MODULE Spec2Model ----
(***************************************************************************)
(* Model of the asynchronous task-tracking core of the asking service:     *)
(* the BreakdownBackgroundTracker poll loop, the orchestration operations  *)
(* that register work with it, the adaptor's result transformation, and    *)
(* the recommendation-question generation guard.                           *)
(***************************************************************************)
EXTENDS Integers, Sequences, FiniteSets, TLC

VARIABLES
    db,          \* threadResponseRepository: response id -> persisted breakdownDetail
    tasks,       \* BreakdownBackgroundTracker.tasks: response id -> registered thread response
    runningJobs, \* BreakdownBackgroundTracker.runningJobs
    polls,       \* jobs of the tracker that are suspended at an await, per response id
    remote,      \* ask-detail tasks submitted to the AI service, indexed by query id
    calls,       \* generateThreadResponseBreakdown invocations suspended at an await
    telemetry,   \* the event the most recent step of the tracker sent to telemetry
    threads,     \* threadRepository: thread id -> recommendation-question fields
    rqTasks,     \* ThreadRecommendQuestionBackgroundTracker.tasks (thread ids)
    rqRemote,    \* question-recommendation tasks held by the AI service
    rqCalls,     \* generateThreadRecommendationQuestions invocations suspended at an await
    threadStore,    \* threadRepository rows (id = index): the thread's project and summary
    responseStore,  \* threadResponseRepository rows (id = index)
    trace,          \* collaborator calls and outcome of the most recent service call
    effects,        \* what the most recent service call submitted, wrote and registered
    cteCall,        \* the most recent application of constructCteSql
    deploys,        \* RubixAdaptor.deploy invocations, per caller
    cancelRequests, \* PATCH /v1/asks/{id} requests received by the AI service
    instances,      \* the tracker instances of the service: task set and running guard
    answerDetails,  \* threadResponseRepository: response id -> persisted answerDetail
    chartDetails,   \* threadResponseRepository: response id -> persisted chartDetail
    statusCall,     \* the most recent application of transformStatusAndError
    deletedThreads  \* ids of the threads deleted from threadRepository

trackerVars == <<db, tasks, runningJobs, polls, remote, calls, telemetry>>
recommendVars == <<threads, rqTasks, rqRemote, rqCalls>>
serviceVars == <<threadStore, responseStore, trace, effects>>
cteVars == <<cteCall>>
deployVars == <<deploys>>
cancelVars == <<cancelRequests>>
instanceVars == <<instances>>
detailVars == <<answerDetails, chartDetails>>
adaptorVars == <<statusCall>>
deletionVars == <<deletedThreads>>
otherVars == <<serviceVars, cteVars, deployVars, cancelVars, instanceVars, detailVars,
               adaptorVars, deletionVars>>
vars == <<db, tasks, runningJobs, polls, remote, calls, telemetry, threads, rqTasks, rqRemote, rqCalls,
          threadStore, responseStore, trace, effects, cteCall, deploys, cancelRequests,
          instances, answerDetails, chartDetails, statusCall, deletedThreads>>

(***************************************************************************)
(* Bounds of the model.                                                    *)
(***************************************************************************)
NumResponses == 2
MaxQueries == 2
NumThreads == 1
NumCallers == 2
MaxRecommendQueries == 3
MaxStored == 2
MaxSteps == 3
MaxCancels == 1
MaxRows == 11

ResponseIds == 1..NumResponses
ThreadIds == 1..NumThreads
Callers == 1..NumCallers

(***************************************************************************)
(* Wire format of the AI service and its transformation by the adaptor.    *)
(***************************************************************************)

\* Status strings the AI service reports for an ask-detail task.
WireStatus == {"understanding", "searching", "finished", "failed", "stopped"}
\* Status fields of a malformed or newer-version body: missing, or not a known status.
WireMalformed == {"", "bogus"}

toUpperCaseKeepingCapitals(s) ==
    CASE s = "understanding" -> "UNDERSTANDING"
      [] s = "searching" -> "SEARCHING"
      [] s = "finished" -> "FINISHED"
      [] s = "failed" -> "FAILED"
      [] s = "stopped" -> "STOPPED"
      [] s = "bogus" -> "BOGUS"
      [] s = "indexing" -> "INDEXING"
      [] s = "planning" -> "PLANNING"
      [] s = "generating" -> "GENERATING"
      [] s = "correcting" -> "CORRECTING"
      [] OTHER -> s

\* String.prototype.toUpperCase on the status strings of the model: written in
\* lower case, capitalized, or in upper case.
toUpperCase(s) ==
    CASE s = "understanding" -> "UNDERSTANDING"
      [] s = "searching" -> "SEARCHING"
      [] s = "finished" -> "FINISHED"
      [] s = "failed" -> "FAILED"
      [] s = "stopped" -> "STOPPED"
      [] s = "bogus" -> "BOGUS"
      [] s = "indexing" -> "INDEXING"
      [] s = "planning" -> "PLANNING"
      [] s = "generating" -> "GENERATING"
      [] s = "correcting" -> "CORRECTING"
      [] s = "Understanding" -> "UNDERSTANDING"
      [] s = "Searching" -> "SEARCHING"
      [] s = "Finished" -> "FINISHED"
      [] s = "Failed" -> "FAILED"
      [] s = "Stopped" -> "STOPPED"
      [] s = "Bogus" -> "BOGUS"
      [] s = "Planning" -> "PLANNING"
      [] s = "Generating" -> "GENERATING"
      [] s = "Correcting" -> "CORRECTING"
      [] OTHER -> s

\* The status field of a body that has none.
undefined == "undefined"

\* Members of the AskResultStatus enumeration.
AskResultStatus ==
    {"UNDERSTANDING", "SEARCHING", "PLANNING", "GENERATING", "CORRECTING",
     "FINISHED", "FAILED", "STOPPED"}

isFinalizedOnlyFinished(status) == status = "FINISHED"

isFinalizedExceptStopped(status) == status = "FAILED" \/ status = "FINISHED"

isFinalized(status) ==
    status = "FAILED" \/ status = "FINISHED" \/ status = "STOPPED"

\* The snake_case steps the AI service returns for finished query q.
WireSteps(q) == [i \in 1..q |-> [summary |-> i, sql |-> 10 * q + i, cte_name |-> i]]

\* What GET /v1/ask-details/{q}/result answers for a task in wire status s.
RemoteBody(q, s) ==
    [status |-> s,
     error |-> IF s = "failed" THEN "NO_RELEVANT_SQL" ELSE "null",
     description |-> IF s = "finished" THEN q ELSE 0,
     steps |-> IF s = "finished" THEN WireSteps(q) ELSE <<>>]

\* transformStatusAndError: "throw" stands for the Unknown ask status error.
transformStatusAndError(body) ==
    LET status == IF body.status = undefined THEN undefined ELSE toUpperCase(body.status) IN
    IF status = undefined \/ status = ""
    THEN [throw |-> TRUE, status |-> status, error |-> "null"]
    ELSE [throw |-> FALSE, status |-> status, error |-> body.error]

\* transformAskDetailResult: snake_case to camelCase on the steps.
transformAskDetailResult(body) ==
    LET se == transformStatusAndError(body) IN
    [throw |-> se.throw,
     status |-> se.status,
     error |-> se.error,
     description |-> body.description,
     steps |-> [i \in 1..Len(body.steps) |->
                  [summary |-> body.steps[i].summary,
                   sql |-> body.steps[i].sql,
                   cteName |-> body.steps[i].cte_name]]]

(***************************************************************************)
(* Persisted breakdown detail.                                             *)
(***************************************************************************)
NoDetail ==
    [queryId |-> 0, status |-> "NONE", error |-> "null", description |-> 0, steps |-> <<>>]

\* The detail generateThreadResponseBreakdown writes for a freshly submitted task.
PendingDetail(q) ==
    [queryId |-> q, status |-> "UNDERSTANDING", error |-> "null", description |-> 0,
     steps |-> <<>>]

UpdatedBreakdownDetailWithoutSteps(breakdownDetail, result) ==
    [queryId |-> breakdownDetail.queryId,
     status |-> result.status,
     error |-> result.error,
     description |-> result.description,
     steps |-> <<>>]

\* updatedBreakdownDetail of the poll job.
UpdatedBreakdownDetail(breakdownDetail, result) ==
    [queryId |-> breakdownDetail.queryId,
     status |-> result.status,
     error |-> result.error,
     description |-> result.description,
     steps |-> result.steps]

\* No event sent.
NoEvent == [sent |-> FALSE, ok |-> FALSE, error |-> "null"]

sendEventAlwaysOk(result) == [sent |-> TRUE, ok |-> TRUE, error |-> result.error]

\* telemetry.sendEvent(HOME_ANSWER_BREAKDOWN, { question, error }) of the poll job:
\* a plain event for FINISHED, an event flagged as a failure of the AI service
\* for any other status.
sendEvent(result) ==
    [sent |-> TRUE, ok |-> result.status = "FINISHED", error |-> result.error]

addTaskKeepingFirst(t, id, detail) ==
    [e \in (DOMAIN t) \cup {id} |-> IF e \in DOMAIN t THEN t[e] ELSE detail]

NoResult ==
    [throw |-> FALSE, status |-> "NONE", error |-> "null", description |-> 0, steps |-> <<>>]

(***************************************************************************)
(* Helpers on sequences and maps.                                          *)
(***************************************************************************)
RemoveAt(s, i) == [j \in 1..(Len(s) - 1) |-> IF j < i THEN s[j] ELSE s[j + 1]]

\* steps.slice(0, end)
slice(steps, end) == SubSeq(steps, 1, IF end > Len(steps) THEN Len(steps) ELSE end)

\* delete this.tasks[id]
DeleteTask(t, id) == [e \in (DOMAIN t) \ {id} |-> t[e]]

\* this.tasks[threadResponse.id] = threadResponse
addTask(t, id, detail) == [e \in (DOMAIN t) \cup {id} |-> IF e = id THEN detail ELSE t[e]]

(***************************************************************************)
(* What a call of the service hands to its collaborators.                  *)
(***************************************************************************)
NoPayload == [kind |-> "none"]
NoWrite == [field |-> "none"]
NoRegistration == [tracker |-> "none"]

\* The thread id and response id arguments of a call that submits a question
\* (0: absent).
NoCall == [threadId |-> 0, threadResponseId |-> 0]

\* A call that submitted nothing, wrote no detail and registered nothing.
NoEffects ==
    [asked |-> NoCall, submitted |-> NoPayload, queryId |-> 0, written |-> NoWrite,
     registered |-> NoRegistration]

GuardedSwallowing(call, ok, err) ==
    IF ok THEN <<call, "telemetry.sendEvent", "return">>
          ELSE <<call, "telemetry.sendEvent failure", "return">>

\* try { await call; telemetry.sendEvent(eventName, ...) }
\* catch (err) { telemetry.sendEvent(eventName, ..., err.extensions?.service, false);
\* throw err }: the calls made when `call` resolves (ok) and when it rejects
\* with the error err.
Guarded(call, ok, err) ==
    IF ok THEN <<call, "telemetry.sendEvent", "return">>
          ELSE <<call, "telemetry.sendEvent failure", "throw " \o err>>

\* transformStatusAndError has not been applied.
NoStatusCall == [applied |-> FALSE]

\* The trackers the constructor of the service creates for thread responses.
TrackerKinds == {"breakdown", "textBasedAnswer", "chart"}

(***************************************************************************)
(* Initial state: nothing submitted, nothing tracked.                      *)
(***************************************************************************)
Init ==
    /\ db = [e \in ResponseIds |-> NoDetail]
    /\ tasks = << >>
    /\ runningJobs = {}
    /\ polls = [e \in ResponseIds |-> << >>]
    /\ remote = << >>
    /\ calls = [e \in ResponseIds |-> [pc |-> "idle", queryId |-> 0]]
    /\ telemetry = NoEvent
    /\ threads = [t \in ThreadIds |-> [queryId |-> 0, questionsStatus |-> "NONE"]]
    /\ rqTasks = << >>
    /\ rqRemote = << >>
    /\ rqCalls = [c \in Callers |-> [pc |-> "idle", thread |-> 0, queryId |-> 0]]
    /\ threadStore = << >>
    /\ responseStore = << >>
    /\ trace = << >>
    /\ effects = NoEffects
    /\ cteCall = [applied |-> FALSE, stepIndex |-> [nil |-> TRUE, value |-> 0],
                  throw |-> "none", sql |-> << >>]
    /\ deploys = [c \in Callers |-> [pc |-> "idle", waitTime |-> 0, fetches |-> 0,
                                      slept |-> 0, last |-> "NONE",
                                      deploySuccess |-> FALSE, status |-> "NONE",
                                      raised |-> FALSE]]
    /\ cancelRequests = 0
    /\ instances = [k \in TrackerKinds |-> [tasks |-> {}, runningJobs |-> {}]]
    /\ answerDetails = << >>
    /\ chartDetails = << >>
    /\ statusCall = NoStatusCall
    /\ deletedThreads = {}

(***************************************************************************)
(* BreakdownBackgroundTracker.start: the interval callback and its jobs.   *)
(***************************************************************************)
IsRunningNever(e) == FALSE

\* this.runningJobs.has(threadResponse.id)
IsRunning(e) == e \in runningJobs

\* One firing of setInterval's callback: a job is created for every registered
\* thread response and run up to its first await; a job whose id is marked
\* running returns at once, the others mark it and issue the fetch.
Tick ==
    LET started == {e \in DOMAIN tasks : ~IsRunning(e)} IN
    /\ runningJobs' = runningJobs \cup started
    /\ polls' = [e \in ResponseIds |->
                   IF e \in started
                   THEN Append(polls[e], [pc |-> "fetch", detail |-> tasks[e],
                                          result |-> NoResult])
                   ELSE polls[e]]
    /\ UNCHANGED <<db, tasks, remote, calls>>
    /\ telemetry' = NoEvent
    /\ UNCHANGED <<recommendVars, otherVars>>

SettledAbortingSiblings(e, i) == [f \in ResponseIds |-> << >>]

\* Promise.allSettled: a job that rejects is only logged; the others stay in flight.
Settled(e, i) == [polls EXCEPT ![e] = RemoveAt(@, i)]

\* Bodies getAskDetailResult may receive for query q.  How far the AI service has
\* got with a task is outside the program: a fetch may observe any status.
Bodies(q) == {RemoteBody(q, s) : s \in WireStatus \cup WireMalformed}

\* breakdownDetail.status === result.status
StatusUnchanged(breakdownDetail, result) == breakdownDetail.status = result.status

\* The fetch of job i of response e resolves with body.
FetchResolveWith(e, i, body) ==
    /\ i \in 1..Len(polls[e])
    /\ polls[e][i].pc = "fetch"
    /\ LET result == transformAskDetailResult(body) IN
         IF result.throw
         THEN \* the job rejects; the running mark is left in place
              /\ polls' = Settled(e, i)
              /\ UNCHANGED runningJobs
         ELSE IF StatusUnchanged(polls[e][i].detail, result)
         THEN /\ runningJobs' = runningJobs \ {e}
              /\ polls' = Settled(e, i)
         ELSE /\ polls' = [polls EXCEPT ![e][i] = [@ EXCEPT !.pc = "update",
                                                            !.result = result]]
              /\ UNCHANGED runningJobs
    /\ UNCHANGED <<db, tasks, remote, calls>>
    /\ telemetry' = NoEvent
    /\ UNCHANGED <<recommendVars, otherVars>>

\* The fetch of job i of response e resolves with a body.
FetchResolve(e, i) ==
    /\ i \in 1..Len(polls[e])
    /\ \E body \in Bodies(polls[e][i].detail.queryId) : FetchResolveWith(e, i, body)

\* The HTTP request of the fetch fails: getAskDetailResult rethrows, the job rejects.
FetchReject(e, i) ==
    /\ i \in 1..Len(polls[e])
    /\ polls[e][i].pc = "fetch"
    /\ polls' = Settled(e, i)
    /\ UNCHANGED <<db, tasks, runningJobs, remote, calls>>
    /\ telemetry' = NoEvent
    /\ UNCHANGED <<recommendVars, otherVars>>

UpdateResolveKeepingTask(e, i) ==
    /\ i \in 1..Len(polls[e])
    /\ polls[e][i].pc = "update"
    /\ db' = [db EXCEPT ![e] = UpdatedBreakdownDetail(polls[e][i].detail, polls[e][i].result)]
    /\ runningJobs' = runningJobs \ {e}
    /\ polls' = Settled(e, i)
    /\ telemetry' = IF isFinalized(polls[e][i].result.status)
                    THEN sendEvent(polls[e][i].result)
                    ELSE NoEvent
    /\ UNCHANGED <<tasks, remote, calls>>
    /\ UNCHANGED <<recommendVars, otherVars>>

\* threadResponseRepository.updateOne resolves; the job runs to its end.
UpdateResolve(e, i) ==
    /\ i \in 1..Len(polls[e])
    /\ polls[e][i].pc = "update"
    /\ db' = [db EXCEPT ![e] = UpdatedBreakdownDetail(polls[e][i].detail, polls[e][i].result)]
    /\ tasks' = IF isFinalized(polls[e][i].result.status) THEN DeleteTask(tasks, e) ELSE tasks
    /\ runningJobs' = runningJobs \ {e}
    /\ polls' = Settled(e, i)
    /\ telemetry' = IF isFinalized(polls[e][i].result.status)
                    THEN sendEvent(polls[e][i].result)
                    ELSE NoEvent
    /\ UNCHANGED <<remote, calls>>
    /\ UNCHANGED <<recommendVars, otherVars>>

\* threadResponseRepository.updateOne rejects; the job rejects.
UpdateReject(e, i) ==
    /\ i \in 1..Len(polls[e])
    /\ polls[e][i].pc = "update"
    /\ polls' = Settled(e, i)
    /\ UNCHANGED <<db, tasks, runningJobs, remote, calls>>
    /\ telemetry' = NoEvent
    /\ UNCHANGED <<recommendVars, otherVars>>

(***************************************************************************)
(* AskingService.generateThreadResponseBreakdown.                          *)
(***************************************************************************)
\* findOneBy finds the response and generateAskDetail resolves with a new query id.
GenerateSubmit(e) ==
    /\ calls[e].pc = "idle"
    /\ Len(remote) < MaxQueries
    /\ remote' = Append(remote, [query |-> e])
    /\ calls' = [calls EXCEPT ![e] = [pc |-> "submitted", queryId |-> Len(remote) + 1]]
    /\ UNCHANGED <<db, tasks, runningJobs, polls>>
    /\ telemetry' = NoEvent
    /\ UNCHANGED <<recommendVars, otherVars>>

\* updateOne persists the pending detail and the updated response is registered.
GenerateRegister(e) ==
    /\ calls[e].pc = "submitted"
    /\ db' = [db EXCEPT ![e] = PendingDetail(calls[e].queryId)]
    /\ tasks' = addTask(tasks, e, PendingDetail(calls[e].queryId))
    /\ calls' = [calls EXCEPT ![e] = [pc |-> "idle", queryId |-> 0]]
    /\ UNCHANGED <<runningJobs, polls, remote>>
    /\ telemetry' = NoEvent
    /\ UNCHANGED <<recommendVars, otherVars>>

(***************************************************************************)
(* AskingService.initialize.                                               *)
(***************************************************************************)
\* threadResponse?.breakdownDetail?.status is truthy: the response has a
\* breakdownDetail with a status.
HasStatus(detail) == detail.status # "NONE" /\ detail.status # ""

\* addTask for each response of ids in turn, with its persisted detail.
RECURSIVE addTasks(_, _)
addTasks(t, ids) ==
    IF ids = {} THEN t
    ELSE LET e == CHOOSE f \in ids : \A g \in ids : f <= g IN
         addTasks(addTask(t, e, db[e]), ids \ {e})

initializeEveryBreakdown ==
    /\ tasks' = addTasks(tasks, {e \in ResponseIds : HasStatus(db[e])})
    /\ telemetry' = NoEvent
    /\ UNCHANGED <<db, runningJobs, polls, remote, calls>>
    /\ UNCHANGED <<recommendVars, otherVars>>

\* findAll, the filter on the breakdown status, and addTask for what is left.
initialize ==
    LET unfininshedBreakdownThreadResponses ==
            {e \in ResponseIds : HasStatus(db[e]) /\ ~isFinalized(db[e].status)}
    IN
    /\ tasks' = addTasks(tasks, unfininshedBreakdownThreadResponses)
    /\ telemetry' = NoEvent
    /\ UNCHANGED <<db, runningJobs, polls, remote, calls>>
    /\ UNCHANGED <<recommendVars, otherVars>>

\* What the repository may hold for a response when the service starts: no
\* breakdownDetail, the detail of the task q submitted for it, or a detail a
\* poll of that task wrote.
PersistedDetails(q) ==
    {NoDetail, PendingDetail(q)} \cup
    {UpdatedBreakdownDetail(PendingDetail(q), transformAskDetailResult(RemoteBody(q, s))) :
        s \in WireStatus}

\* The service starts on a repository with persisted responses; no tracker
\* holds a task.
InitPersisted ==
    /\ db \in {d \in [ResponseIds -> UNION {PersistedDetails(q) : q \in ResponseIds}] :
                    \A e \in ResponseIds : d[e] \in PersistedDetails(e)}
    /\ tasks = << >>
    /\ runningJobs = {}
    /\ polls = [e \in ResponseIds |-> << >>]
    /\ remote = [q \in ResponseIds |-> [query |-> q]]
    /\ calls = [e \in ResponseIds |-> [pc |-> "idle", queryId |-> 0]]
    /\ telemetry = NoEvent
    /\ threads = [t \in ThreadIds |-> [queryId |-> 0, questionsStatus |-> "NONE"]]
    /\ rqTasks = << >>
    /\ rqRemote = << >>
    /\ rqCalls = [c \in Callers |-> [pc |-> "idle", thread |-> 0, queryId |-> 0]]
    /\ threadStore = << >>
    /\ responseStore = << >>
    /\ trace = << >>
    /\ effects = NoEffects
    /\ cteCall = [applied |-> FALSE, stepIndex |-> [nil |-> TRUE, value |-> 0],
                  throw |-> "none", sql |-> << >>]
    /\ deploys = [c \in Callers |-> [pc |-> "idle", waitTime |-> 0, fetches |-> 0,
                                      slept |-> 0, last |-> "NONE",
                                      deploySuccess |-> FALSE, status |-> "NONE",
                                      raised |-> FALSE]]
    /\ cancelRequests = 0
    /\ instances = [k \in TrackerKinds |-> [tasks |-> {}, runningJobs |-> {}]]
    /\ answerDetails = << >>
    /\ chartDetails = << >>
    /\ statusCall = NoStatusCall
    /\ deletedThreads = {}

Next ==
    \/ Tick
    \/ \E e \in ResponseIds : \E i \in 1..Len(polls[e]) : FetchResolve(e, i)
    \/ \E e \in ResponseIds : \E i \in 1..Len(polls[e]) : FetchReject(e, i)
    \/ \E e \in ResponseIds : \E i \in 1..Len(polls[e]) : UpdateResolve(e, i)
    \/ \E e \in ResponseIds : \E i \in 1..Len(polls[e]) : UpdateReject(e, i)
    \/ \E e \in ResponseIds : GenerateSubmit(e)
    \/ \E e \in ResponseIds : GenerateRegister(e)

\* The start of the service, the first polls of the tracker and the fetches
\* of those polls that fail; what a poll that resolves writes is the case of
\* Next.
NextInitialize ==
    \/ initialize
    \/ Tick
    \/ \E e \in ResponseIds : \E i \in 1..Len(polls[e]) : FetchReject(e, i)

SpecInitialize == InitPersisted /\ [][NextInitialize]_vars

(***************************************************************************)
(* The tracker when every fetch and every write succeeds.                  *)
(***************************************************************************)
\* Bodies on which getAskDetailResult resolves: those with a known status.
SuccessBodies(q) == {RemoteBody(q, s) : s \in WireStatus}

\* Bodies that report a terminal status.
TerminalBodies(q) == {body \in SuccessBodies(q) : isFinalized(toUpperCase(body.status))}

\* The fetch of job i of response e resolves with a well-formed body.
FetchSucceeds(e, i) ==
    /\ i \in 1..Len(polls[e])
    /\ \E body \in SuccessBodies(polls[e][i].detail.queryId) : FetchResolveWith(e, i, body)

\* A fetch for response e is answered with a terminal status.
FetchTerminal(e) ==
    \E i \in 1..Len(polls[e]) :
       \E body \in TerminalBodies(polls[e][i].detail.queryId) : FetchResolveWith(e, i, body)

NextLive ==
    \/ Tick
    \/ \E e \in ResponseIds : \E i \in 1..Len(polls[e]) : FetchSucceeds(e, i)
    \/ \E e \in ResponseIds : \E i \in 1..Len(polls[e]) : UpdateResolve(e, i)
    \/ \E e \in ResponseIds : GenerateSubmit(e)
    \/ \E e \in ResponseIds : GenerateRegister(e)

\* setInterval keeps firing; an awaited updateOne resolves; the AI service
\* ends every task, so a response that is fetched again and again is in the
\* end answered with a terminal status.
FairLive ==
    /\ WF_vars(Tick)
    /\ \A e \in ResponseIds :
         /\ WF_vars(\E i \in 1..Len(polls[e]) : UpdateResolve(e, i))
         /\ SF_vars(FetchTerminal(e))

SpecLive == Init /\ [][NextLive]_vars /\ FairLive

Spec == Init /\ [][Next]_vars

(***************************************************************************)
(* AskingService.generateThreadRecommendationQuestions and the tracker of  *)
(* thread recommendation questions.                                        *)
(***************************************************************************)
\* ThreadRecommendQuestionBackgroundTracker.isExist
isExist(t) == t \in DOMAIN rqTasks

\* findOneBy resolves with the thread and the invocation tests the tracker: a
\* thread that is registered makes it return, any other lets it go on to the
\* awaits of the project, the manifest and the thread's responses.
RecommendCheck(c, t) ==
    /\ rqCalls[c].pc = "idle"
    /\ rqCalls' = IF isExist(t)
                  THEN rqCalls
                  ELSE [rqCalls EXCEPT ![c] = [pc |-> "checked", thread |-> t, queryId |-> 0]]
    /\ UNCHANGED <<threads, rqTasks, rqRemote>>
    /\ UNCHANGED <<trackerVars, otherVars>>

\* generateRecommendationQuestions resolves with a new query id.
RecommendSubmit(c) ==
    /\ rqCalls[c].pc = "checked"
    /\ Len(rqRemote) < MaxRecommendQueries
    /\ rqRemote' = Append(rqRemote, [thread |-> rqCalls[c].thread])
    /\ rqCalls' = [rqCalls EXCEPT ![c].pc = "submitted", ![c].queryId = Len(rqRemote) + 1]
    /\ UNCHANGED <<threads, rqTasks>>
    /\ UNCHANGED <<trackerVars, otherVars>>

\* updateOne resets the thread's recommendation fields and the updated thread is
\* registered with the tracker.
RecommendRegister(c) ==
    /\ rqCalls[c].pc = "submitted"
    /\ threads' = [threads EXCEPT ![rqCalls[c].thread] =
                      [queryId |-> rqCalls[c].queryId, questionsStatus |-> "GENERATING"]]
    /\ rqTasks' = addTask(rqTasks, rqCalls[c].thread, [queryId |-> rqCalls[c].queryId])
    /\ rqCalls' = [rqCalls EXCEPT ![c] = [pc |-> "idle", thread |-> 0, queryId |-> 0]]
    /\ UNCHANGED rqRemote
    /\ UNCHANGED <<trackerVars, otherVars>>

\* A poll of the tracker observes a terminal status: the thread is updated and
\* deregistered.
RecommendFinalize(t, status) ==
    /\ isExist(t)
    /\ threads' = [threads EXCEPT ![t].questionsStatus = status]
    /\ rqTasks' = DeleteTask(rqTasks, t)
    /\ UNCHANGED <<rqRemote, rqCalls>>
    /\ UNCHANGED <<trackerVars, otherVars>>

NextRecommend ==
    \/ \E c \in Callers : \E t \in ThreadIds : RecommendCheck(c, t)
    \/ \E c \in Callers : RecommendSubmit(c)
    \/ \E c \in Callers : RecommendRegister(c)
    \/ \E t \in ThreadIds : \E status \in {"FINISHED", "FAILED"} : RecommendFinalize(t, status)

SpecRecommend == Init /\ [][NextRecommend]_vars

(***************************************************************************)
(* AskingService: the operations on threads and thread responses.  The     *)
(* rows of the two repositories are kept in threadStore and responseStore; *)
(* trace lists, in order, the calls the most recent operation made on its  *)
(* collaborators and how it ended.                                         *)
(***************************************************************************)
Questions == {"Q1", "Q2"}
SqlTexts == {"SELECT 1", "SELECT 2"}

\* Ids a caller may pass: those of the rows that can exist and one beyond.
StoreKeys == 1..(MaxStored + 1)

\* Optional tracked asking task id of the input (0: none).
TaskIds == {0, 1}

NoAdjustment == [type |-> "NONE", originalThreadResponseId |-> 0, sql |-> "null"]

NoSteps == [defined |-> FALSE, list |-> << >>]

ThreadExistsAlways(threadId) == TRUE

\* threadRepository.findOneBy({ id }) finds a row.
ThreadExists(threadId) == threadId \in 1..Len(threadStore) /\ threadId \notin deletedThreads

\* threadResponseRepository.findOneBy({ id }) finds a row.
ResponseExists(id) == id \in 1..Len(responseStore)

\* The id of projectService.getCurrentProject().
getCurrentProject == 1

\* createOne: the new row gets the next id.
createOne(store, row) == Append(store, row)

\* The row createThread and createThreadResponse hand to createOne.
NewResponse(threadId, question, sql, taskId) ==
    [threadId |-> threadId, question |-> question, sql |-> sql, askingTaskId |-> taskId,
     adjustment |-> NoAdjustment, breakdownSteps |-> NoSteps]

\* input.trackedAskingResult of a tracked asking task: its task id and the query
\* id the AI service gave it.
trackedAskingResult(taskId) == [taskId |-> taskId, queryId |-> 10 * taskId]

BindThreadResponseUntracked(taskId, threadId, threadResponseId) ==
    [NoEffects EXCEPT
       !.registered = [tracker |-> "askingTaskTracker",
                       taskId |-> trackedAskingResult(taskId).taskId,
                       queryId |-> trackedAskingResult(taskId).queryId,
                       threadId |-> threadId,
                       threadResponseId |-> threadResponseId]]

\* if (input.trackedAskingResult?.taskId) askingTaskTracker.bindThreadResponse(
\* taskId, queryId, thread.id, threadResponse.id): what the tracker is handed.
BindThreadResponse(taskId, threadId, threadResponseId) ==
    IF taskId # 0
    THEN [NoEffects EXCEPT
            !.registered = [tracker |-> "askingTaskTracker",
                            taskId |-> trackedAskingResult(taskId).taskId,
                            queryId |-> trackedAskingResult(taskId).queryId,
                            threadId |-> threadId,
                            threadResponseId |-> threadResponseId]]
    ELSE NoEffects

\* The calls that follow the creation of a response: the asking task is bound
\* when the input carries its id.
BindIfTracked(taskId) ==
    IF taskId # 0 THEN <<"askingTaskTracker.bindThreadResponse", "return">> ELSE <<"return">>

createThread(question, sql, taskId) ==
    /\ Len(responseStore) < MaxStored
    /\ effects' = BindThreadResponse(taskId, Len(threadStore) + 1, Len(responseStore) + 1)
    /\ threadStore' = createOne(threadStore, [projectId |-> getCurrentProject,
                                               summary |-> question])
    /\ responseStore' = createOne(responseStore,
                                  NewResponse(Len(threadStore) + 1, question, sql, taskId))
    /\ trace' = <<"projectService.getCurrentProject", "threadRepository.createOne",
                  "threadResponseRepository.createOne">> \o BindIfTracked(taskId)
    /\ UNCHANGED <<trackerVars, recommendVars, cteVars, deployVars, cancelVars, instanceVars,
                   detailVars, adaptorVars, deletionVars>>

isEmptyNever(input) == FALSE

\* lodash isEmpty on the update input.
isEmpty(input) == input.keys = {}

\* Partial<AskingDetailTaskUpdateInput>: no field, or a summary.
UpdateInputs ==
    {[keys |-> {}, summary |-> "undefined"]} \cup
    {[keys |-> {"summary"}, summary |-> q] : q \in Questions}

updateThread(threadId, input) ==
    /\ effects' = NoEffects
    /\ IF isEmpty(input)
       THEN /\ trace' = <<"throw validation">>
            /\ UNCHANGED threadStore
       ELSE /\ trace' = <<"threadRepository.updateOne", "return">>
            /\ threadStore' = IF threadId \in 1..Len(threadStore)
                              THEN [threadStore EXCEPT ![threadId].summary = input.summary]
                              ELSE threadStore
    /\ UNCHANGED responseStore
    /\ UNCHANGED <<trackerVars, recommendVars, cteVars, deployVars, cancelVars, instanceVars,
                   detailVars, adaptorVars, deletionVars>>

deleteThreadUntracking(threadId) ==
    /\ deletedThreads' = deletedThreads \cup ({threadId} \cap (1..Len(threadStore)))
    /\ instances' = [k \in TrackerKinds |->
                       [tasks |-> {e \in instances[k].tasks :
                                      responseStore[e].threadId # threadId},
                        runningJobs |-> instances[k].runningJobs]]
    /\ trace' = <<"threadRepository.deleteOne", "return">>
    /\ effects' = NoEffects
    /\ UNCHANGED <<threadStore, responseStore>>
    /\ UNCHANGED <<trackerVars, recommendVars, cteVars, deployVars, cancelVars,
                   detailVars, adaptorVars>>

\* threadRepository.deleteOne(threadId): the row of the thread is gone; the
\* service calls nothing else.
deleteThread(threadId) ==
    /\ deletedThreads' = deletedThreads \cup ({threadId} \cap (1..Len(threadStore)))
    /\ trace' = <<"threadRepository.deleteOne", "return">>
    /\ effects' = NoEffects
    /\ UNCHANGED <<threadStore, responseStore>>
    /\ UNCHANGED <<trackerVars, recommendVars, cteVars, deployVars, cancelVars, instanceVars,
                   detailVars, adaptorVars>>

\* threadRepository.deleteAllBy({ projectId }): the rows of the threads of the
\* project are gone; the service calls nothing else.
deleteAllByProjectId(projectId) ==
    /\ deletedThreads' = deletedThreads \cup
                            {t \in 1..Len(threadStore) : threadStore[t].projectId = projectId}
    /\ trace' = <<"threadRepository.deleteAllBy", "return">>
    /\ effects' = NoEffects
    /\ UNCHANGED <<threadStore, responseStore>>
    /\ UNCHANGED <<trackerVars, recommendVars, cteVars, deployVars, cancelVars, instanceVars,
                   detailVars, adaptorVars>>

createThreadResponse(threadId, question, sql, taskId) ==
    /\ IF ~ThreadExists(threadId)
       THEN /\ trace' = <<"threadRepository.findOneBy", "throw not found">>
            /\ effects' = NoEffects
            /\ UNCHANGED responseStore
       ELSE /\ Len(responseStore) < MaxStored
            /\ effects' = BindThreadResponse(taskId, threadId, Len(responseStore) + 1)
            /\ responseStore' = createOne(responseStore, NewResponse(threadId, question, sql, taskId))
            /\ trace' = <<"threadRepository.findOneBy", "threadResponseRepository.createOne">>
                        \o BindIfTracked(taskId)
    /\ UNCHANGED threadStore
    /\ UNCHANGED <<trackerVars, recommendVars, cteVars, deployVars, cancelVars, instanceVars,
                   detailVars, adaptorVars, deletionVars>>

updateThreadResponse(responseId, sql) ==
    /\ effects' = NoEffects
    /\ IF ~ResponseExists(responseId)
       THEN /\ trace' = <<"threadResponseRepository.findOneBy", "throw not found">>
            /\ UNCHANGED responseStore
       ELSE /\ responseStore' = [responseStore EXCEPT ![responseId].sql = sql]
            /\ trace' = <<"threadResponseRepository.findOneBy",
                          "threadResponseRepository.updateOne", "return">>
    /\ UNCHANGED threadStore
    /\ UNCHANGED <<trackerVars, recommendVars, cteVars, deployVars, cancelVars, instanceVars,
                   detailVars, adaptorVars, deletionVars>>

AdjustedRowKeepingSql(response, id, sql) ==
    [threadId |-> response.threadId,
     question |-> response.question,
     sql |-> response.sql,
     askingTaskId |-> 0,
     adjustment |-> [type |-> "APPLY_SQL", originalThreadResponseId |-> id, sql |-> sql],
     breakdownSteps |-> NoSteps]

AdjustedRowLinkedToItself(response, id, sql) ==
    [threadId |-> response.threadId,
     question |-> response.question,
     sql |-> sql,
     askingTaskId |-> 0,
     adjustment |-> [type |-> "APPLY_SQL",
                     originalThreadResponseId |-> Len(responseStore) + 1, sql |-> sql],
     breakdownSteps |-> NoSteps]

\* The row adjustThreadResponseWithSQL hands to createOne for response `id`.
AdjustedRow(response, id, sql) ==
    [threadId |-> response.threadId,
     question |-> response.question,
     sql |-> sql,
     askingTaskId |-> 0,
     adjustment |-> [type |-> "APPLY_SQL", originalThreadResponseId |-> id, sql |-> sql],
     breakdownSteps |-> NoSteps]

adjustThreadResponseWithSQL(threadResponseId, sql) ==
    /\ effects' = NoEffects
    /\ IF ~ResponseExists(threadResponseId)
       THEN /\ trace' = <<"threadResponseRepository.findOneBy", "throw not found">>
            /\ UNCHANGED responseStore
       ELSE /\ Len(responseStore) < MaxStored
            /\ responseStore' = createOne(responseStore,
                                          AdjustedRow(responseStore[threadResponseId],
                                                      threadResponseId, sql))
            /\ trace' = <<"threadResponseRepository.findOneBy",
                          "threadResponseRepository.createOne", "return">>
    /\ UNCHANGED threadStore
    /\ UNCHANGED <<trackerVars, recommendVars, cteVars, deployVars, cancelVars, instanceVars,
                   detailVars, adaptorVars, deletionVars>>

\* An operation that looks its response up and, when it is found, goes on to the
\* calls `found`; the rows of the two stores stay as they are.
OnResponseWith(id, found, done) ==
    /\ trace' = IF ~ResponseExists(id)
                THEN <<"threadResponseRepository.findOneBy", "throw not found">>
                ELSE <<"threadResponseRepository.findOneBy">> \o found
    /\ effects' = IF ~ResponseExists(id) THEN NoEffects ELSE done
    /\ UNCHANGED <<threadStore, responseStore>>
    /\ UNCHANGED <<trackerVars, recommendVars, cteVars, deployVars, cancelVars, instanceVars,
                   detailVars, adaptorVars, deletionVars>>

\* The same for an operation that hands nothing to a collaborator.
OnResponse(id, found) == OnResponseWith(id, found, NoEffects)

\* The same for an operation on a thread.
OnThreadWith(threadId, found, done) ==
    /\ trace' = IF ~ThreadExists(threadId)
                THEN <<"threadRepository.findOneBy", "throw not found">>
                ELSE <<"threadRepository.findOneBy">> \o found
    /\ effects' = IF ~ThreadExists(threadId) THEN NoEffects ELSE done
    /\ UNCHANGED <<threadStore, responseStore>>
    /\ UNCHANGED <<trackerVars, recommendVars, cteVars, deployVars, cancelVars, instanceVars,
                   detailVars, adaptorVars, deletionVars>>

OnThread(threadId, found) == OnThreadWith(threadId, found, NoEffects)

\* Query ids the AI service may answer a submission with.
QueryIds == {1, 2}

\* A submission for the response, the pending detail written with the returned
\* query id, and the registration of the updated response.
Submitted(kind, response, queryId, written, tracker) ==
    [asked |-> NoCall,
     submitted |-> [kind |-> kind, query |-> response.question, sql |-> response.sql],
     queryId |-> queryId,
     written |-> written,
     registered |-> [tracker |-> tracker, detail |-> written]]

generateThreadResponseBreakdown(threadResponseId) ==
    \E queryId \in QueryIds :
        OnResponseWith(threadResponseId,
                       <<"wrenAIAdaptor.generateAskDetail",
                         "threadResponseRepository.updateOne",
                         "breakdownBackgroundTracker.addTask", "return">>,
                       Submitted("ask-detail", responseStore[threadResponseId], queryId,
                                 [field |-> "breakdownDetail", queryId |-> queryId,
                                  status |-> "UNDERSTANDING"],
                                 "breakdownBackgroundTracker"))

generateThreadResponseAnswerUnregistered(threadResponseId) ==
    OnResponseWith(threadResponseId,
                   <<"threadResponseRepository.updateOne", "return">>,
                   [NoEffects EXCEPT !.written = [field |-> "answerDetail",
                                                  status |-> "NOT_STARTED"]])

\* No task is submitted: the detail written holds the status only.
generateThreadResponseAnswer(threadResponseId) ==
    OnResponseWith(threadResponseId,
                   <<"threadResponseRepository.updateOne",
                     "textBasedAnswerBackgroundTracker.addTask", "return">>,
                   LET written == [field |-> "answerDetail", status |-> "NOT_STARTED"] IN
                   [NoEffects EXCEPT !.written = written,
                                     !.registered = [tracker |-> "textBasedAnswerBackgroundTracker",
                                                     detail |-> written]])

generateThreadResponseChartRegisteringFirst(threadResponseId) ==
    \E queryId \in QueryIds :
        OnResponseWith(threadResponseId,
                       <<"wrenAIAdaptor.generateChart", "chartBackgroundTracker.addTask",
                         "threadResponseRepository.updateOne", "return">>,
                       Submitted("chart", responseStore[threadResponseId], queryId,
                                 [field |-> "chartDetail", queryId |-> queryId,
                                  status |-> "FETCHING"],
                                 "chartBackgroundTracker"))

generateThreadResponseChart(threadResponseId) ==
    \E queryId \in QueryIds :
        OnResponseWith(threadResponseId,
                       <<"wrenAIAdaptor.generateChart", "threadResponseRepository.updateOne",
                         "chartBackgroundTracker.addTask", "return">>,
                       Submitted("chart", responseStore[threadResponseId], queryId,
                                 [field |-> "chartDetail", queryId |-> queryId,
                                  status |-> "FETCHING"],
                                 "chartBackgroundTracker"))

adjustThreadResponseChart(threadResponseId) ==
    \E queryId \in QueryIds :
        OnResponseWith(threadResponseId,
                       <<"wrenAIAdaptor.adjustChart", "threadResponseRepository.updateOne",
                         "chartAdjustmentBackgroundTracker.addTask", "return">>,
                       Submitted("chart-adjustment", responseStore[threadResponseId], queryId,
                                 [field |-> "chartDetail", queryId |-> queryId,
                                  status |-> "FETCHING", adjustment |-> TRUE],
                                 "chartAdjustmentBackgroundTracker"))

\* The submission of generateThreadResponseBreakdown rejects: generateAskDetail
\* rethrows and the operation ends there.
generateThreadResponseBreakdownRejected(threadResponseId) ==
    OnResponseWith(threadResponseId,
                   <<"wrenAIAdaptor.generateAskDetail", "throw adaptor">>,
                   [NoEffects EXCEPT
                      !.submitted = [kind |-> "ask-detail",
                                     query |-> responseStore[threadResponseId].question,
                                     sql |-> responseStore[threadResponseId].sql]])

(***************************************************************************)
(* The chart operations with the chartDetail they read and write.          *)
(***************************************************************************)
ChartSchemas == {"S1", "S2"}
ChartTypes == {"BAR", "LINE"}

\* ChartAdjustmentOption: the chart type and the axes asked for.
ChartAdjustmentOptions == [chartType : ChartTypes, xAxis : {"x"}, yAxis : {"y"}]

\* String.prototype.toLowerCase on a chart type.
toLowerCase(s) ==
    CASE s = "BAR" -> "bar"
      [] s = "LINE" -> "line"
      [] OTHER -> s

\* Map.set: the entry of id is replaced, the others stay.
Put(store, id, detail) ==
    [k \in (DOMAIN store) \cup {id} |-> IF k = id THEN detail ELSE store[k]]

\* The chartDetail generateThreadResponseChart and adjustThreadResponseChart
\* write: the query id, FETCHING, and the adjustment flag of an adjustment.
PendingChartDetail(queryId, adjustment) ==
    [queryId |-> queryId, status |-> "FETCHING", adjustment |-> adjustment,
     chartSchema |-> undefined]

\* The chartDetail of a finished chart: the result of getChartResult with its
\* chartSchema.
FinishedChartDetail(queryId, chartSchema) ==
    [queryId |-> queryId, status |-> "FINISHED", adjustment |-> FALSE,
     chartSchema |-> chartSchema]

\* threadResponse.chartDetail?.chartSchema
StoredChartSchema(id) ==
    IF id \in DOMAIN chartDetails THEN chartDetails[id].chartSchema ELSE undefined

\* RubixAdaptor.transformChartAdjustmentInput: the body of POST
\* /v1/chart-adjustments (x_offset, color and theta are copied like the axes).
transformChartAdjustmentInput(input) ==
    [query |-> input.query,
     sql |-> input.sql,
     adjustment_option |-> [chart_type |-> toLowerCase(input.adjustmentOption.chartType),
                            x_axis |-> input.adjustmentOption.xAxis,
                            y_axis |-> input.adjustmentOption.yAxis],
     chart_schema |-> input.chartSchema]

\* The input of generateChart, posted as it is to /v1/charts.
ChartRequest(response) == [query |-> response.question, sql |-> response.sql]

\* The outcome of an operation that submits `request`, writes `detail` as
\* chartDetail and registers the updated response with `tracker`; ok: the
\* submission resolves.
StoredChartCall(id, ok, adaptorCall, kind, request, adjustment, tracker) ==
    IF ~ResponseExists(id)
    THEN /\ trace' = <<"threadResponseRepository.findOneBy", "throw not found">>
         /\ effects' = NoEffects
         /\ UNCHANGED chartDetails
    ELSE IF ~ok
    THEN /\ trace' = <<"threadResponseRepository.findOneBy", adaptorCall, "throw adaptor">>
         /\ effects' = [NoEffects EXCEPT !.submitted = [kind |-> kind, request |-> request]]
         /\ UNCHANGED chartDetails
    ELSE \E queryId \in QueryIds :
           LET written == PendingChartDetail(queryId, adjustment) IN
           /\ trace' = <<"threadResponseRepository.findOneBy", adaptorCall,
                         "threadResponseRepository.updateOne", tracker \o ".addTask",
                         "return">>
           /\ effects' = [asked |-> NoCall,
                          submitted |-> [kind |-> kind, request |-> request],
                          queryId |-> queryId,
                          written |-> [field |-> "chartDetail", detail |-> written],
                          registered |-> [tracker |-> tracker, id |-> id, detail |-> written]]
           /\ chartDetails' = Put(chartDetails, id, written)

\* generateThreadResponseChart with the repository it writes.
GenerateStoredChart(id, ok) ==
    /\ StoredChartCall(id, ok, "wrenAIAdaptor.generateChart", "chart",
                       IF ResponseExists(id) THEN ChartRequest(responseStore[id])
                                             ELSE NoPayload,
                       FALSE, "chartBackgroundTracker")
    /\ UNCHANGED <<threadStore, responseStore, answerDetails>>
    /\ UNCHANGED <<trackerVars, recommendVars, cteVars, deployVars, cancelVars, instanceVars,
                   adaptorVars, deletionVars>>

\* The input adjustThreadResponseChart hands to adjustChart, as the adaptor
\* posts it.
AdjustRequest(id, input, chartSchema) ==
    IF ResponseExists(id)
    THEN transformChartAdjustmentInput([query |-> responseStore[id].question,
                                        sql |-> responseStore[id].sql,
                                        adjustmentOption |-> input,
                                        chartSchema |-> chartSchema])
    ELSE NoPayload

AdjustStoredChartWithoutSchema(id, input, ok) ==
    /\ StoredChartCall(id, ok, "wrenAIAdaptor.adjustChart", "chart-adjustment",
                       AdjustRequest(id, input, undefined),
                       TRUE, "chartAdjustmentBackgroundTracker")
    /\ UNCHANGED <<threadStore, responseStore, answerDetails>>
    /\ UNCHANGED <<trackerVars, recommendVars, cteVars, deployVars, cancelVars, instanceVars,
                   adaptorVars, deletionVars>>

AdjustStoredChartWritingFirst(id, input, ok) ==
    /\ IF ResponseExists(id) /\ ~ok
       THEN /\ trace' = <<"threadResponseRepository.findOneBy",
                          "threadResponseRepository.updateOne",
                          "wrenAIAdaptor.adjustChart", "throw adaptor">>
            /\ effects' = [NoEffects EXCEPT
                             !.written = [field |-> "chartDetail",
                                          detail |-> PendingChartDetail(0, TRUE)]]
            /\ chartDetails' = Put(chartDetails, id, PendingChartDetail(0, TRUE))
       ELSE StoredChartCall(id, ok, "wrenAIAdaptor.adjustChart", "chart-adjustment",
                            AdjustRequest(id, input, StoredChartSchema(id)),
                            TRUE, "chartAdjustmentBackgroundTracker")
    /\ UNCHANGED <<threadStore, responseStore, answerDetails>>
    /\ UNCHANGED <<trackerVars, recommendVars, cteVars, deployVars, cancelVars, instanceVars,
                   adaptorVars, deletionVars>>

\* adjustThreadResponseChart with the repository it reads and writes: the
\* request carries the chartSchema of the stored chartDetail.
AdjustStoredChart(id, input, ok) ==
    /\ StoredChartCall(id, ok, "wrenAIAdaptor.adjustChart", "chart-adjustment",
                       AdjustRequest(id, input, StoredChartSchema(id)),
                       TRUE, "chartAdjustmentBackgroundTracker")
    /\ UNCHANGED <<threadStore, responseStore, answerDetails>>
    /\ UNCHANGED <<trackerVars, recommendVars, cteVars, deployVars, cancelVars, instanceVars,
                   adaptorVars, deletionVars>>

(***************************************************************************)
(* The answer operations with the answerDetail they read and write.        *)
(***************************************************************************)
\* An answerDetail: its status and content, and the queryId and
\* numRowsUsedInLLM the text answer tracker keeps in it.
AnswerDetail(status, content, queryId, numRowsUsedInLLM) ==
    [status |-> status, content |-> content, queryId |-> queryId,
     numRowsUsedInLLM |-> numRowsUsedInLLM]

\* answerDetail: { status: NOT_STARTED }
InitialAnswerDetail == AnswerDetail("NOT_STARTED", undefined, undefined, undefined)

\* A response without answerDetail: every field reads undefined.
NoAnswerDetail == AnswerDetail(undefined, undefined, undefined, undefined)

\* response.answerDetail
StoredAnswerDetail(id) ==
    IF id \in DOMAIN answerDetails THEN answerDetails[id] ELSE NoAnswerDetail

\* generateThreadResponseAnswer with the repository it writes.
GenerateStoredAnswer(id) ==
    /\ IF ~ResponseExists(id)
       THEN /\ trace' = <<"threadResponseRepository.findOneBy", "throw not found">>
            /\ effects' = NoEffects
            /\ UNCHANGED answerDetails
       ELSE /\ trace' = <<"threadResponseRepository.findOneBy",
                          "threadResponseRepository.updateOne",
                          "textBasedAnswerBackgroundTracker.addTask", "return">>
            /\ effects' = [NoEffects EXCEPT
                             !.written = [field |-> "answerDetail",
                                          detail |-> InitialAnswerDetail],
                             !.registered = [tracker |-> "textBasedAnswerBackgroundTracker",
                                             id |-> id, detail |-> InitialAnswerDetail]]
            /\ answerDetails' = Put(answerDetails, id, InitialAnswerDetail)
    /\ UNCHANGED <<threadStore, responseStore, chartDetails>>
    /\ UNCHANGED <<trackerVars, recommendVars, cteVars, deployVars, cancelVars, instanceVars,
                   adaptorVars, deletionVars>>

ChangeStoredAnswerStatusAlways(id, status, content) ==
    /\ IF ~ResponseExists(id)
       THEN /\ trace' = <<"threadResponseRepository.findOneBy", "throw not found">>
            /\ effects' = NoEffects
            /\ UNCHANGED answerDetails
       ELSE LET written == [StoredAnswerDetail(id) EXCEPT !.status = status,
                                                          !.content = content]
            IN
            /\ trace' = <<"threadResponseRepository.findOneBy",
                          "threadResponseRepository.updateOne", "return">>
            /\ effects' = [NoEffects EXCEPT
                             !.written = [field |-> "answerDetail", detail |-> written]]
            /\ answerDetails' = Put(answerDetails, id, written)
    /\ UNCHANGED <<threadStore, responseStore, chartDetails>>
    /\ UNCHANGED <<trackerVars, recommendVars, cteVars, deployVars, cancelVars, instanceVars,
                   adaptorVars, deletionVars>>

\* changeThreadResponseAnswerDetailStatus with the repository it reads and
\* writes: { ...response.answerDetail, status, content }.
ChangeStoredAnswerStatus(id, status, content) ==
    /\ IF ~ResponseExists(id)
       THEN /\ trace' = <<"threadResponseRepository.findOneBy", "throw not found">>
            /\ effects' = NoEffects
            /\ UNCHANGED answerDetails
       ELSE IF StoredAnswerDetail(id).status = status
       THEN /\ trace' = <<"threadResponseRepository.findOneBy", "return">>
            /\ effects' = NoEffects
            /\ UNCHANGED answerDetails
       ELSE LET written == [StoredAnswerDetail(id) EXCEPT !.status = status,
                                                          !.content = content]
            IN
            /\ trace' = <<"threadResponseRepository.findOneBy",
                          "threadResponseRepository.updateOne", "return">>
            /\ effects' = [NoEffects EXCEPT
                             !.written = [field |-> "answerDetail", detail |-> written]]
            /\ answerDetails' = Put(answerDetails, id, written)
    /\ UNCHANGED <<threadStore, responseStore, chartDetails>>
    /\ UNCHANGED <<trackerVars, recommendVars, cteVars, deployVars, cancelVars, instanceVars,
                   adaptorVars, deletionVars>>

\* AdjustmentBackgroundTaskTracker.createAdjustmentTask: the task is created
\* together with a new response that records the original response's id.
createAdjustmentTask(store, input) ==
    createOne(store,
              [threadId |-> input.threadId,
               question |-> input.question,
               sql |-> "",
               askingTaskId |-> 0,
               adjustment |-> [type |-> "REASONING",
                               originalThreadResponseId |-> input.originalThreadResponseId,
                               sql |-> "null"],
               breakdownSteps |-> NoSteps])

adjustThreadResponseAnswer(threadResponseId) ==
    /\ IF ~ResponseExists(threadResponseId)
       THEN /\ trace' = <<"threadResponseRepository.findOneBy", "throw not found">>
            /\ effects' = NoEffects
            /\ UNCHANGED responseStore
       ELSE /\ Len(responseStore) < MaxStored
            /\ LET originalThreadResponse == responseStore[threadResponseId] IN
               /\ responseStore' =
                    createAdjustmentTask(responseStore,
                                         [threadId |-> originalThreadResponse.threadId,
                                          sql |-> originalThreadResponse.sql,
                                          question |-> originalThreadResponse.question,
                                          originalThreadResponseId |-> threadResponseId])
               /\ effects' = [NoEffects EXCEPT
                                !.submitted = [kind |-> "adjustment",
                                               query |-> originalThreadResponse.question,
                                               sql |-> originalThreadResponse.sql]]
            /\ trace' = <<"threadResponseRepository.findOneBy",
                          "adjustmentBackgroundTracker.createAdjustmentTask", "return">>
    /\ UNCHANGED threadStore
    /\ UNCHANGED <<trackerVars, recommendVars, cteVars, deployVars, cancelVars, instanceVars,
                   detailVars, adaptorVars, deletionVars>>

(***************************************************************************)
(* The history of a thread and the asking task.                            *)
(***************************************************************************)
\* .slice(0, 5) of the recommendation questions.
RecommendedFrom == 5

\* The limit getAskingHistory passes to getResponsesWithThread.
AskingHistoryLimit == 10

\* A stored response as the repository returns it.
Row(id) ==
    [id |-> id, threadId |-> responseStore[id].threadId,
     question |-> responseStore[id].question, sql |-> responseStore[id].sql]

\* threadResponseRepository.findAllBy({ threadId }), in the order of the ids.
findAllBy(threadId) ==
    SelectSeq([i \in 1..Len(responseStore) |-> Row(i)], LAMBDA r : r.threadId = threadId)

\* The place of row r in a list sorted with the comparator (a, b) => b.id - a.id.
RECURSIVE InsertById(_, _)
InsertById(sorted, r) ==
    IF sorted = << >> THEN <<r>>
    ELSE IF Head(sorted).id - r.id < 0 THEN <<r>> \o sorted
    ELSE <<Head(sorted)>> \o InsertById(Tail(sorted), r)

RECURSIVE sortAscending(_)
sortAscending(responses) ==
    IF responses = << >> THEN << >>
    ELSE LET rest == sortAscending(Tail(responses))
             r == Head(responses)
             smaller == SelectSeq(rest, LAMBDA x : x.id < r.id)
             larger == SelectSeq(rest, LAMBDA x : x.id >= r.id)
         IN smaller \o <<r>> \o larger

\* threadResponses.sort((a, b) => b.id - a.id)
RECURSIVE sort(_)
sort(responses) ==
    IF responses = << >> THEN << >>
    ELSE InsertById(sort(Tail(responses)), Head(responses))

\* previousQuestions of the recommendation request.
previousQuestions(threadId) ==
    LET slicedThreadResponses == slice(sort(findAllBy(threadId)), RecommendedFrom) IN
    [i \in 1..Len(slicedThreadResponses) |-> slicedThreadResponses[i].question]

\* threadResponseRepository.getResponsesWithThread(threadId, limit): the newest
\* `limit` responses of the thread, newest first.
getResponsesWithThread(threadId, limit) ==
    LET all == findAllBy(threadId) IN
    slice([i \in 1..Len(all) |-> all[Len(all) + 1 - i]], limit)

getAskingHistoryUnfiltered(threadId, excludeThreadResponseId) ==
    IF threadId = 0 THEN << >> ELSE getResponsesWithThread(threadId, AskingHistoryLimit)

\* An absent id is 0.
getAskingHistory(threadId, excludeThreadResponseId) ==
    IF threadId = 0
    THEN << >>
    ELSE LET fetched == getResponsesWithThread(threadId, AskingHistoryLimit)
             responses == IF excludeThreadResponseId # 0
                          THEN SelectSeq(fetched, LAMBDA r : r.id # excludeThreadResponseId)
                          ELSE fetched
         IN SelectSeq(responses, LAMBDA r : r.sql # "")

\* histories of createAskingTask when the payload has no thread id.
NullHistories == [isNull |-> TRUE, list |-> << >>]

\* RubixAdaptor.transformHistoryInput
transformHistoryInput(histories) ==
    IF histories.isNull
    THEN << >>
    ELSE [i \in 1..Len(histories.list) |->
            [sql |-> histories.list[i].sql, question |-> histories.list[i].question]]

\* RubixAdaptor.ask: the body of POST /v1/asks.
ask(input) == [query |-> input.query, histories |-> transformHistoryInput(input.histories)]

\* AskingTaskTracker.createAskingTask hands its input to the adaptor.
askingTaskTrackerCreateAskingTask(input) == ask(input)

\* createAskingTask from the resolution of the deploy id on: the calls made and
\* what is handed to the asking task tracker.
AskingCalls(threadId) ==
    <<"projectService.getCurrentProject", "deployService.getLastDeployment">>
    \o (IF threadId # 0 THEN <<"threadResponseRepository.getResponsesWithThread">>
                        ELSE << >>)
    \o <<"askingTaskTracker.createAskingTask", "return">>

AskingTask(question, threadId, rerunFromCancelled, previousTaskId, threadResponseId) ==
    LET histories == IF threadId # 0
                     THEN [isNull |-> FALSE,
                           list |-> getAskingHistory(threadId, threadResponseId)]
                     ELSE NullHistories
        input == [query |-> question, histories |-> histories]
    IN
    [kind |-> "ask",
     query |-> question,
     histories |-> histories,
     rerunFromCancelled |-> rerunFromCancelled,
     previousTaskId |-> previousTaskId,
     threadResponseId |-> threadResponseId,
     request |-> askingTaskTrackerCreateAskingTask(input)]

\* A first or follow-up question: no rerun flag, no previous task, no response.
createAskingTask(question, threadId) ==
    /\ \E queryId \in QueryIds :
         effects' = [NoEffects EXCEPT
                       !.asked = [threadId |-> threadId, threadResponseId |-> 0],
                       !.submitted = AskingTask(question, threadId, FALSE, 0, 0),
                       !.queryId = queryId]
    /\ trace' = AskingCalls(threadId)
    /\ UNCHANGED <<threadStore, responseStore>>
    /\ UNCHANGED <<trackerVars, recommendVars, cteVars, deployVars, cancelVars, instanceVars,
                   detailVars, adaptorVars, deletionVars>>

rerunAskingTaskForPayloadThread(threadResponseId, payloadThreadId) ==
    \E queryId \in QueryIds :
        OnResponseWith(threadResponseId,
                       AskingCalls(payloadThreadId),
                       LET threadResponse == responseStore[threadResponseId] IN
                       [NoEffects EXCEPT
                          !.asked = [threadId |-> payloadThreadId,
                                     threadResponseId |-> threadResponseId],
                          !.submitted = AskingTask(threadResponse.question,
                                                   payloadThreadId, TRUE,
                                                   threadResponse.askingTaskId,
                                                   threadResponseId),
                          !.queryId = queryId])

\* payloadThreadId: the thread id of the payload, 0 when it has none.
rerunAskingTask(threadResponseId, payloadThreadId) ==
    \E queryId \in QueryIds :
        OnResponseWith(threadResponseId,
                       AskingCalls(responseStore[threadResponseId].threadId),
                       LET threadResponse == responseStore[threadResponseId] IN
                       [NoEffects EXCEPT
                          !.asked = [threadId |-> payloadThreadId,
                                     threadResponseId |-> threadResponseId],
                          !.submitted = AskingTask(threadResponse.question,
                                                   threadResponse.threadId, TRUE,
                                                   threadResponse.askingTaskId,
                                                   threadResponseId),
                          !.queryId = queryId])

\* The preview of the stored sql succeeds or fails.
previewData(responseId, previewOk) ==
    OnResponse(responseId,
               <<"projectService.getCurrentProject", "deployService.getLastDeployment">>
               \o Guarded("queryService.preview", previewOk, "preview"))

\* A status equal to the stored one returns at once, any other is written.
changeThreadResponseAnswerDetailStatus(responseId, sameStatus) ==
    OnResponse(responseId,
               IF sameStatus THEN <<"return">>
                             ELSE <<"threadResponseRepository.updateOne", "return">>)

getThreadRecommendationQuestions(threadId) == OnThread(threadId, <<"return">>)

\* registered: the recommendation tracker already holds the thread.
generateThreadRecommendationQuestions(threadId, registered) ==
    \E queryId \in QueryIds :
        OnThreadWith(threadId,
                     IF registered
                     THEN <<"threadRecommendQuestionBackgroundTracker.isExist", "return">>
                     ELSE <<"threadRecommendQuestionBackgroundTracker.isExist",
                            "projectService.getCurrentProject",
                            "mdlService.makeCurrentModelMDL",
                            "threadResponseRepository.findAllBy",
                            "wrenAIAdaptor.generateRecommendationQuestions",
                            "threadRepository.updateOne",
                            "threadRecommendQuestionBackgroundTracker.addTask", "return">>,
                     IF registered
                     THEN NoEffects
                     ELSE LET written == [field |-> "questions", queryId |-> queryId,
                                          status |-> "GENERATING"]
                          IN
                          [asked |-> [threadId |-> threadId, threadResponseId |-> 0],
                           submitted |-> [kind |-> "question-recommendation",
                                          previousQuestions |-> previousQuestions(threadId)],
                           queryId |-> queryId,
                           written |-> written,
                           registered |-> [tracker |-> "threadRecommendQuestionBackgroundTracker",
                                           detail |-> written]])

(***************************************************************************)
(* constructCteSql and previewBreakdownData.  A SQL text is the sequence   *)
(* of the pieces the template literals concatenate.                        *)
(***************************************************************************)
\* stepIndex?: number
NilIndex == [nil |-> TRUE, value |-> 0]
Index(v) == [nil |-> FALSE, value |-> v]
StepIndexes == {NilIndex} \cup {Index(v) : v \in -1..MaxSteps}

\* Steps a breakdown may consist of, and the step lists of up to MaxSteps steps.
StepPool ==
    {[cteName |-> "cte_a", summary |-> "sum_a", sql |-> "sql_a"],
     [cteName |-> "cte_b", summary |-> "sum_b", sql |-> "sql_b"]}
StepLists == UNION {[1..n -> StepPool] : n \in 0..MaxSteps}

\* breakdownDetail.steps of a stored response: absent, or a step list.
StoredSteps == {NoSteps} \cup {[defined |-> TRUE, list |-> l] : l \in StepLists}

StepSqlWithComma(step, i, n) ==
    IF i = n
    THEN <<"\n-- ", step.summary, "\n", step.sql>>
    ELSE <<step.cteName, " AS", "\n-- ", step.summary, "\n", "(", step.sql, ")", ",">>

\* What the forEach callback appends for the step at 1-based position i of n.
StepSql(step, i, n) ==
    IF i = n
    THEN <<"\n-- ", step.summary, "\n", step.sql>>
    ELSE IF i = n - 1
    THEN <<step.cteName, " AS", "\n-- ", step.summary, "\n", "(", step.sql, ")">>
    ELSE <<step.cteName, " AS", "\n-- ", step.summary, "\n", "(", step.sql, ")", ",">>

RECURSIVE ForEachStep(_, _)
ForEachStep(slicedSteps, i) ==
    IF i > Len(slicedSteps)
    THEN << >>
    ELSE StepSql(slicedSteps[i], i, Len(slicedSteps)) \o ForEachStep(slicedSteps, i + 1)

InvalidStepIndexBelowOnly(stepIndex, length) == ~stepIndex.nil /\ stepIndex.value < 0

\* !isNil(stepIndex) && (stepIndex < 0 || stepIndex >= steps.length)
InvalidStepIndex(stepIndex, length) ==
    ~stepIndex.nil /\ (stepIndex.value < 0 \/ stepIndex.value >= length)

OnlyOneStepNever(slicedSteps) == FALSE

\* slicedSteps.length === 1
OnlyOneStep(slicedSteps) == Len(slicedSteps) = 1

constructCteSql(steps, stepIndex) ==
    IF ~steps.defined
    THEN \* reading length of undefined
         [throw |-> "TypeError", sql |-> << >>]
    ELSE IF InvalidStepIndex(stepIndex, Len(steps.list))
    THEN [throw |-> "Invalid stepIndex", sql |-> << >>]
    ELSE LET slicedSteps == IF stepIndex.nil THEN steps.list
                            ELSE slice(steps.list, stepIndex.value + 1)
         IN
         IF OnlyOneStep(slicedSteps)
         THEN [throw |-> "none",
               sql |-> <<"-- ", slicedSteps[1].summary, "\n", slicedSteps[1].sql>>]
         ELSE [throw |-> "none",
               sql |-> <<"WITH ">> \o ForEachStep(slicedSteps, 1)]

\* The steps of the stored response constructCteSql is applied to.
StepsUnderTest == responseStore[1].breakdownSteps

\* A direct application of constructCteSql to the stored steps.
ApplyConstructCteSql(stepIndex) ==
    /\ responseStore # << >>
    /\ LET result == constructCteSql(StepsUnderTest, stepIndex) IN
       cteCall' = [applied |-> TRUE, stepIndex |-> stepIndex,
                   throw |-> result.throw, sql |-> result.sql]
    /\ UNCHANGED <<serviceVars, trackerVars, recommendVars, deployVars, cancelVars, instanceVars,
                   detailVars, adaptorVars, deletionVars>>

previewBreakdownData(responseId, stepIndex, previewOk) ==
    /\ effects' = NoEffects
    /\ trace' =
         IF ~ResponseExists(responseId)
         THEN <<"threadResponseRepository.findOneBy", "throw not found">>
         ELSE LET result == constructCteSql(responseStore[responseId].breakdownSteps,
                                            stepIndex)
              IN
              <<"threadResponseRepository.findOneBy", "projectService.getCurrentProject",
                "deployService.getLastDeployment">>
              \o (IF result.throw = "Invalid stepIndex" THEN <<"throw validation">>
                  ELSE IF result.throw = "TypeError" THEN <<"throw TypeError">>
                  ELSE Guarded("queryService.preview", previewOk, "preview"))
    /\ UNCHANGED <<threadStore, responseStore>>
    /\ UNCHANGED <<trackerVars, recommendVars, cteVars, deployVars, cancelVars, instanceVars,
                   detailVars, adaptorVars, deletionVars>>

\* A thread with one response whose breakdown, if any, has been persisted.
InitCte ==
    /\ db = [e \in ResponseIds |-> NoDetail]
    /\ tasks = << >>
    /\ runningJobs = {}
    /\ polls = [e \in ResponseIds |-> << >>]
    /\ remote = << >>
    /\ calls = [e \in ResponseIds |-> [pc |-> "idle", queryId |-> 0]]
    /\ telemetry = NoEvent
    /\ threads = [t \in ThreadIds |-> [queryId |-> 0, questionsStatus |-> "NONE"]]
    /\ rqTasks = << >>
    /\ rqRemote = << >>
    /\ rqCalls = [c \in Callers |-> [pc |-> "idle", thread |-> 0, queryId |-> 0]]
    /\ threadStore = <<[projectId |-> getCurrentProject, summary |-> "Q1"]>>
    /\ \E steps \in StoredSteps :
         responseStore = <<[threadId |-> 1, question |-> "Q1", sql |-> "SELECT 1",
                            askingTaskId |-> 0, adjustment |-> NoAdjustment, breakdownSteps |-> steps]>>
    /\ trace = << >>
    /\ effects = NoEffects
    /\ cteCall = [applied |-> FALSE, stepIndex |-> NilIndex, throw |-> "none", sql |-> << >>]
    /\ deploys = [c \in Callers |-> [pc |-> "idle", waitTime |-> 0, fetches |-> 0,
                                     slept |-> 0, last |-> "NONE",
                                     deploySuccess |-> FALSE, status |-> "NONE",
                                     raised |-> FALSE]]
    /\ cancelRequests = 0
    /\ instances = [k \in TrackerKinds |-> [tasks |-> {}, runningJobs |-> {}]]
    /\ answerDetails = << >>
    /\ chartDetails = << >>
    /\ statusCall = NoStatusCall
    /\ deletedThreads = {}

NextCte ==
    \/ \E stepIndex \in StepIndexes : ApplyConstructCteSql(stepIndex)
    \/ \E responseId \in 1..2 : \E stepIndex \in StepIndexes : \E previewOk \in BOOLEAN :
          previewBreakdownData(responseId, stepIndex, previewOk)

SpecCte == InitCte /\ [][NextCte]_vars

(***************************************************************************)
(* The operations that create responses and write their sql, with every    *)
(* question and SQL text as input.                                         *)
(***************************************************************************)
NextAdjust ==
    \/ \E q \in Questions : \E sql \in SqlTexts : \E taskId \in TaskIds :
          createThread(q, sql, taskId)
    \/ \E t \in StoreKeys : \E q \in Questions : \E sql \in SqlTexts : \E taskId \in TaskIds :
          createThreadResponse(t, q, sql, taskId)
    \/ \E id \in StoreKeys : \E sql \in SqlTexts : updateThreadResponse(id, sql)
    \/ \E id \in StoreKeys : \E sql \in SqlTexts : adjustThreadResponseWithSQL(id, sql)
    \/ \E id \in StoreKeys : adjustThreadResponseAnswer(id)

SpecAdjust == Init /\ [][NextAdjust]_vars

(***************************************************************************)
(* All operations of the service that take a thread id or a response id,   *)
(* called with the ids of stored rows and with ids of no row.  The texts   *)
(* and the tracked asking task are the same in every call; the step index  *)
(* of a preview is absent or 0.                                            *)
(***************************************************************************)
AskedQuestions == {"Q1"}
AskedSqlTexts == {"SELECT 1"}
AskedTaskIds == {1}
PreviewedIndexes == {NilIndex, Index(0)}

NextService ==
    \/ \E q \in AskedQuestions : \E sql \in AskedSqlTexts : \E taskId \in AskedTaskIds :
          createThread(q, sql, taskId)
    \/ \E t \in StoreKeys : \E input \in UpdateInputs : updateThread(t, input)
    \/ \E t \in StoreKeys : \E q \in AskedQuestions : \E sql \in AskedSqlTexts :
          \E taskId \in AskedTaskIds : createThreadResponse(t, q, sql, taskId)
    \/ \E id \in StoreKeys : \E sql \in AskedSqlTexts : updateThreadResponse(id, sql)
    \/ \E id \in StoreKeys : \E sql \in AskedSqlTexts : adjustThreadResponseWithSQL(id, sql)
    \/ \E id \in StoreKeys : generateThreadResponseBreakdown(id)
    \/ \E id \in StoreKeys : generateThreadResponseAnswer(id)
    \/ \E id \in StoreKeys : generateThreadResponseChart(id)
    \/ \E id \in StoreKeys : adjustThreadResponseChart(id)
    \/ \E id \in StoreKeys : adjustThreadResponseAnswer(id)
    \/ \E id \in StoreKeys : \E t \in 0..1 : rerunAskingTask(id, t)
    \/ \E q \in AskedQuestions : \E t \in 0..1 : createAskingTask(q, t)
    \/ \E id \in StoreKeys : \E previewOk \in BOOLEAN : previewData(id, previewOk)
    \/ \E id \in StoreKeys : \E stepIndex \in PreviewedIndexes : \E previewOk \in BOOLEAN :
          previewBreakdownData(id, stepIndex, previewOk)
    \/ \E id \in StoreKeys : \E sameStatus \in BOOLEAN :
          changeThreadResponseAnswerDetailStatus(id, sameStatus)
    \/ \E t \in StoreKeys : getThreadRecommendationQuestions(t)
    \/ \E t \in StoreKeys : \E registered \in BOOLEAN :
          generateThreadRecommendationQuestions(t, registered)

SpecService == Init /\ [][NextService]_vars

(***************************************************************************)
(* The operations that read the history of a thread, on stored threads of  *)
(* up to MaxRows responses.                                                *)
(***************************************************************************)
\* n responses of thread 1 with SQL, but for one that has none (emptyAt) and one
\* that belongs to thread 2 (foreignAt); 0 stands for no such response.  The
\* initial stores have the response without SQL, if any, as the oldest or as
\* the fifth newest, and the response of thread 2, if any, as the second newest.
HistoryStore(n, emptyAt, foreignAt) ==
    [i \in 1..n |->
        [threadId |-> IF i = foreignAt THEN 2 ELSE 1,
         question |-> "Q" \o ToString(i),
         sql |-> IF i = emptyAt THEN "" ELSE "SELECT 1",
         askingTaskId |-> IF i % 2 = 0 THEN 0 ELSE i,
         adjustment |-> NoAdjustment,
         breakdownSteps |-> NoSteps]]

InitHistory ==
    /\ db = [e \in ResponseIds |-> NoDetail]
    /\ tasks = << >>
    /\ runningJobs = {}
    /\ polls = [e \in ResponseIds |-> << >>]
    /\ remote = << >>
    /\ calls = [e \in ResponseIds |-> [pc |-> "idle", queryId |-> 0]]
    /\ telemetry = NoEvent
    /\ threads = [t \in ThreadIds |-> [queryId |-> 0, questionsStatus |-> "NONE"]]
    /\ rqTasks = << >>
    /\ rqRemote = << >>
    /\ rqCalls = [c \in Callers |-> [pc |-> "idle", thread |-> 0, queryId |-> 0]]
    /\ threadStore = <<[projectId |-> getCurrentProject, summary |-> "Q1"],
                        [projectId |-> getCurrentProject, summary |-> "Q2"]>>
    /\ \E n \in 0..MaxRows : \E emptyAt \in {0, 1, n - 4} : \E foreignAt \in {0, n - 1} :
         responseStore = HistoryStore(n, emptyAt, foreignAt)
    /\ trace = << >>
    /\ effects = NoEffects
    /\ cteCall = [applied |-> FALSE, stepIndex |-> NilIndex, throw |-> "none", sql |-> << >>]
    /\ deploys = [c \in Callers |-> [pc |-> "idle", waitTime |-> 0, fetches |-> 0,
                                     slept |-> 0, last |-> "NONE",
                                     deploySuccess |-> FALSE, status |-> "NONE",
                                     raised |-> FALSE]]
    /\ cancelRequests = 0
    /\ instances = [k \in TrackerKinds |-> [tasks |-> {}, runningJobs |-> {}]]
    /\ answerDetails = << >>
    /\ chartDetails = << >>
    /\ statusCall = NoStatusCall
    /\ deletedThreads = {}

\* Thread ids a payload may carry: none (0), a stored thread, or the other one.
PayloadThreads == 0..2

NextHistory ==
    \/ \E t \in 1..3 : \E registered \in BOOLEAN :
          generateThreadRecommendationQuestions(t, registered)
    \/ \E q \in AskedQuestions : \E t \in PayloadThreads : createAskingTask(q, t)
    \/ \E id \in 1..(MaxRows + 1) : \E t \in PayloadThreads : rerunAskingTask(id, t)

SpecHistory == InitHistory /\ [][NextHistory]_vars

(***************************************************************************)
(* The tracker instances of the service side by side: each has the task    *)
(* set and the running guard of BreakdownBackgroundTracker.                *)
(***************************************************************************)
MarkRunningInEveryInstance(k, started) ==
    [j \in TrackerKinds |-> [instances[j] EXCEPT !.runningJobs = @ \cup started]]

\* this.runningJobs.add(threadResponse.id) for the jobs a tick starts.
MarkRunning(k, started) == [instances EXCEPT ![k].runningJobs = @ \cup started]

\* addTask on instance k.
InstanceAddTask(k, e) ==
    /\ instances' = [instances EXCEPT ![k].tasks = @ \cup {e}]
    /\ UNCHANGED <<trackerVars, recommendVars, serviceVars, cteVars, deployVars, cancelVars,
                   detailVars, adaptorVars, deletionVars>>

\* A tick of instance k: every task of k that k has not marked running is marked
\* and polled.
InstanceTick(k) ==
    /\ instances' = MarkRunning(k, instances[k].tasks \ instances[k].runningJobs)
    /\ UNCHANGED <<trackerVars, recommendVars, serviceVars, cteVars, deployVars, cancelVars,
                   detailVars, adaptorVars, deletionVars>>

\* A poll of k ends with the task kept: the mark is released.
InstanceRelease(k, e) ==
    /\ e \in instances[k].runningJobs
    /\ instances' = [instances EXCEPT ![k].runningJobs = @ \ {e}]
    /\ UNCHANGED <<trackerVars, recommendVars, serviceVars, cteVars, deployVars, cancelVars,
                   detailVars, adaptorVars, deletionVars>>

\* A poll of k ends with a finalized status: the task is removed and the mark
\* released.
InstanceFinalize(k, e) ==
    /\ e \in instances[k].runningJobs
    /\ instances' = [instances EXCEPT ![k].tasks = @ \ {e}, ![k].runningJobs = @ \ {e}]
    /\ UNCHANGED <<trackerVars, recommendVars, serviceVars, cteVars, deployVars, cancelVars,
                   detailVars, adaptorVars, deletionVars>>

NextInstances ==
    \/ \E k \in TrackerKinds : \E e \in ResponseIds : InstanceAddTask(k, e)
    \/ \E k \in TrackerKinds : InstanceTick(k)
    \/ \E k \in TrackerKinds : \E e \in ResponseIds : InstanceRelease(k, e)
    \/ \E k \in TrackerKinds : \E e \in ResponseIds : InstanceFinalize(k, e)

SpecInstances == Init /\ [][NextInstances]_vars

(***************************************************************************)
(* Threads are deleted while the trackers hold their responses.            *)
(***************************************************************************)
\* Projects a caller may name: the current one, another one with a thread, and
\* one without threads.
ProjectIds == {getCurrentProject, getCurrentProject + 1, getCurrentProject + 2}

\* Two threads, one in the current project and one in another; the stored
\* responses belong to them in turn.
InitDeletion ==
    /\ db = [e \in ResponseIds |-> NoDetail]
    /\ tasks = << >>
    /\ runningJobs = {}
    /\ polls = [e \in ResponseIds |-> << >>]
    /\ remote = << >>
    /\ calls = [e \in ResponseIds |-> [pc |-> "idle", queryId |-> 0]]
    /\ telemetry = NoEvent
    /\ threads = [t \in ThreadIds |-> [queryId |-> 0, questionsStatus |-> "NONE"]]
    /\ rqTasks = << >>
    /\ rqRemote = << >>
    /\ rqCalls = [c \in Callers |-> [pc |-> "idle", thread |-> 0, queryId |-> 0]]
    /\ threadStore = <<[projectId |-> getCurrentProject, summary |-> "Q1"],
                        [projectId |-> getCurrentProject + 1, summary |-> "Q2"]>>
    /\ responseStore = [e \in ResponseIds |->
                          NewResponse(IF e % 2 = 1 THEN 1 ELSE 2, "Q1", "SELECT 1", 0)]
    /\ trace = << >>
    /\ effects = NoEffects
    /\ cteCall = [applied |-> FALSE, stepIndex |-> [nil |-> TRUE, value |-> 0],
                  throw |-> "none", sql |-> << >>]
    /\ deploys = [c \in Callers |-> [pc |-> "idle", waitTime |-> 0, fetches |-> 0,
                                      slept |-> 0, last |-> "NONE",
                                      deploySuccess |-> FALSE, status |-> "NONE",
                                      raised |-> FALSE]]
    /\ cancelRequests = 0
    /\ instances = [k \in TrackerKinds |-> [tasks |-> {}, runningJobs |-> {}]]
    /\ answerDetails = << >>
    /\ chartDetails = << >>
    /\ statusCall = NoStatusCall
    /\ deletedThreads = {}

NextDeletion ==
    \/ \E k \in TrackerKinds : \E e \in ResponseIds : InstanceAddTask(k, e)
    \/ \E k \in TrackerKinds : InstanceTick(k)
    \/ \E k \in TrackerKinds : \E e \in ResponseIds : InstanceRelease(k, e)
    \/ \E k \in TrackerKinds : \E e \in ResponseIds : InstanceFinalize(k, e)
    \/ \E t \in 1..(Len(threadStore) + 1) : deleteThread(t)
    \/ \E p \in ProjectIds : deleteAllByProjectId(p)

SpecDeletion == InitDeletion /\ [][NextDeletion]_vars

(***************************************************************************)
(* The chart operations on stored responses, some with a finished chart.   *)
(***************************************************************************)
\* What the repository may hold as chartDetail of response id before the
\* operations: nothing, or a finished chart with its schema.
StoredCharts ==
    {store \in UNION {[ids -> {FinishedChartDetail(1, s) : s \in ChartSchemas}] :
                         ids \in SUBSET ResponseIds} : TRUE}

InitChart ==
    /\ db = [e \in ResponseIds |-> NoDetail]
    /\ tasks = << >>
    /\ runningJobs = {}
    /\ polls = [e \in ResponseIds |-> << >>]
    /\ remote = << >>
    /\ calls = [e \in ResponseIds |-> [pc |-> "idle", queryId |-> 0]]
    /\ telemetry = NoEvent
    /\ threads = [t \in ThreadIds |-> [queryId |-> 0, questionsStatus |-> "NONE"]]
    /\ rqTasks = << >>
    /\ rqRemote = << >>
    /\ rqCalls = [c \in Callers |-> [pc |-> "idle", thread |-> 0, queryId |-> 0]]
    /\ threadStore = <<[projectId |-> getCurrentProject, summary |-> "Q1"]>>
    /\ responseStore = [e \in ResponseIds |-> NewResponse(1, "Q1", "SELECT 1", 0)]
    /\ trace = << >>
    /\ effects = NoEffects
    /\ cteCall = [applied |-> FALSE, stepIndex |-> [nil |-> TRUE, value |-> 0],
                  throw |-> "none", sql |-> << >>]
    /\ deploys = [c \in Callers |-> [pc |-> "idle", waitTime |-> 0, fetches |-> 0,
                                      slept |-> 0, last |-> "NONE",
                                      deploySuccess |-> FALSE, status |-> "NONE",
                                      raised |-> FALSE]]
    /\ cancelRequests = 0
    /\ instances = [k \in TrackerKinds |-> [tasks |-> {}, runningJobs |-> {}]]
    /\ answerDetails = << >>
    /\ chartDetails \in StoredCharts
    /\ statusCall = NoStatusCall
    /\ deletedThreads = {}

NextChart ==
    \/ \E id \in 1..(Len(responseStore) + 1) : \E ok \in BOOLEAN : GenerateStoredChart(id, ok)
    \/ \E id \in 1..(Len(responseStore) + 1) : \E input \in ChartAdjustmentOptions :
          \E ok \in BOOLEAN : AdjustStoredChart(id, input, ok)
    \/ \E id \in 1..(Len(responseStore) + 1) : generateThreadResponseBreakdown(id)
    \/ \E id \in 1..(Len(responseStore) + 1) : generateThreadResponseBreakdownRejected(id)

SpecChart == InitChart /\ [][NextChart]_vars

(***************************************************************************)
(* The answer operations on stored responses, some with an answer the text *)
(* answer tracker has worked on.                                           *)
(***************************************************************************)
\* What the repository may hold as answerDetail before the operations: nothing,
\* or a detail the text answer tracker has filled in.
TrackedAnswerDetails ==
    {AnswerDetail("STREAMING", undefined, "q7", 3), AnswerDetail("FINISHED", "A1", "q7", 3)}

StoredAnswers == UNION {[ids -> TrackedAnswerDetails] : ids \in SUBSET ResponseIds}

\* The statuses and contents a caller passes.
RequestedStatuses == {"STREAMING", "FINISHED", "INTERRUPTED"}
RequestedContents == {undefined, "A2"}

InitAnswer ==
    /\ db = [e \in ResponseIds |-> NoDetail]
    /\ tasks = << >>
    /\ runningJobs = {}
    /\ polls = [e \in ResponseIds |-> << >>]
    /\ remote = << >>
    /\ calls = [e \in ResponseIds |-> [pc |-> "idle", queryId |-> 0]]
    /\ telemetry = NoEvent
    /\ threads = [t \in ThreadIds |-> [queryId |-> 0, questionsStatus |-> "NONE"]]
    /\ rqTasks = << >>
    /\ rqRemote = << >>
    /\ rqCalls = [c \in Callers |-> [pc |-> "idle", thread |-> 0, queryId |-> 0]]
    /\ threadStore = <<[projectId |-> getCurrentProject, summary |-> "Q1"]>>
    /\ responseStore = [e \in ResponseIds |-> NewResponse(1, "Q1", "SELECT 1", 0)]
    /\ trace = << >>
    /\ effects = NoEffects
    /\ cteCall = [applied |-> FALSE, stepIndex |-> [nil |-> TRUE, value |-> 0],
                  throw |-> "none", sql |-> << >>]
    /\ deploys = [c \in Callers |-> [pc |-> "idle", waitTime |-> 0, fetches |-> 0,
                                      slept |-> 0, last |-> "NONE",
                                      deploySuccess |-> FALSE, status |-> "NONE",
                                      raised |-> FALSE]]
    /\ cancelRequests = 0
    /\ instances = [k \in TrackerKinds |-> [tasks |-> {}, runningJobs |-> {}]]
    /\ answerDetails \in StoredAnswers
    /\ chartDetails = << >>
    /\ statusCall = NoStatusCall
    /\ deletedThreads = {}

NextAnswer ==
    \/ \E id \in 1..(Len(responseStore) + 1) : GenerateStoredAnswer(id)
    \/ \E id \in 1..(Len(responseStore) + 1) : \E status \in RequestedStatuses :
          \E content \in RequestedContents : ChangeStoredAnswerStatus(id, status, content)

SpecAnswer == InitAnswer /\ [][NextAnswer]_vars

(***************************************************************************)
(* AskingService.cancelAskingTask and RubixAdaptor.cancelAsk.              *)
(***************************************************************************)
\* cancelAsk: one PATCH /v1/asks/{queryId} with status stopped.
cancelAsk(queryId) == cancelRequests + 1

\* AskingTaskTracker.cancelAskingTask: the cancel request for the task.
askingTaskTrackerCancelAskingTask(taskId) == cancelAsk(taskId)

cancelAskingTaskDeregistering(taskId, ok) ==
    /\ cancelRequests < MaxCancels
    /\ cancelRequests' = askingTaskTrackerCancelAskingTask(taskId)
    /\ tasks' = [e \in {f \in DOMAIN tasks : tasks[f].queryId # taskId} |-> tasks[e]]
    /\ trace' = Guarded("askingTaskTracker.cancelAskingTask", ok, "cancel")
    /\ effects' = NoEffects
    /\ UNCHANGED <<db, runningJobs, polls, remote, calls, telemetry>>
    /\ UNCHANGED <<threadStore, responseStore>>
    /\ UNCHANGED <<recommendVars, cteVars, deployVars, instanceVars,
                   detailVars, adaptorVars, deletionVars>>

\* The request is awaited; it resolves (ok) or its error is rethrown to the
\* caller after the telemetry event.  Nothing of the service's trackers or
\* repositories is touched.
cancelAskingTask(taskId, ok) ==
    /\ cancelRequests < MaxCancels
    /\ cancelRequests' = askingTaskTrackerCancelAskingTask(taskId)
    /\ trace' = Guarded("askingTaskTracker.cancelAskingTask", ok, "cancel")
    /\ effects' = NoEffects
    /\ UNCHANGED trackerVars
    /\ UNCHANGED <<threadStore, responseStore>>
    /\ UNCHANGED <<recommendVars, cteVars, deployVars, instanceVars,
                   detailVars, adaptorVars, deletionVars>>

\* The steps of the tracker and cancel requests that resolve; a request that
\* fails differs in the calls of the service only, the case of NextTelemetry.
NextCancel ==
    \/ Next
    \/ \E taskId \in 1..MaxQueries : \E ok \in {TRUE} : cancelAskingTask(taskId, ok)

SpecCancel == Init /\ [][NextCancel]_vars

(***************************************************************************)
(* The operations that report their outcome to telemetry, on a stored      *)
(* response: the guarded call resolves or rejects.                         *)
(***************************************************************************)
NextTelemetry ==
    \/ \E taskId \in 1..MaxQueries : \E ok \in BOOLEAN : cancelAskingTask(taskId, ok)
    \/ \E id \in 1..2 : \E previewOk \in BOOLEAN : previewData(id, previewOk)
    \/ \E id \in 1..2 : \E stepIndex \in StepIndexes : \E previewOk \in BOOLEAN :
          previewBreakdownData(id, stepIndex, previewOk)

SpecTelemetry == InitCte /\ [][NextTelemetry]_vars

(***************************************************************************)
(* transformStatusAndError applied to the bodies the AI service may send.  *)
(***************************************************************************)
\* The spellings of a status word.
Spellings ==
    {[lower |-> "understanding", capital |-> "Understanding", upper |-> "UNDERSTANDING"],
     [lower |-> "searching", capital |-> "Searching", upper |-> "SEARCHING"],
     [lower |-> "planning", capital |-> "Planning", upper |-> "PLANNING"],
     [lower |-> "generating", capital |-> "Generating", upper |-> "GENERATING"],
     [lower |-> "correcting", capital |-> "Correcting", upper |-> "CORRECTING"],
     [lower |-> "finished", capital |-> "Finished", upper |-> "FINISHED"],
     [lower |-> "failed", capital |-> "Failed", upper |-> "FAILED"],
     [lower |-> "stopped", capital |-> "Stopped", upper |-> "STOPPED"],
     [lower |-> "bogus", capital |-> "Bogus", upper |-> "BOGUS"]}

\* Status fields of a body: a status word in any spelling, the empty string, or
\* no status at all.
StatusFields ==
    UNION {{w.lower, w.capital, w.upper} : w \in Spellings} \cup {"", undefined}

\* body.error.code of a body ("null": no error).
ErrorCodes == {"null", "NO_RELEVANT_SQL", "OTHERS"}

WireBodies == [status : StatusFields, error : ErrorCodes]

\* A body has arrived.
InitStatus ==
    /\ db = [e \in ResponseIds |-> NoDetail]
    /\ tasks = << >>
    /\ runningJobs = {}
    /\ polls = [e \in ResponseIds |-> << >>]
    /\ remote = << >>
    /\ calls = [e \in ResponseIds |-> [pc |-> "idle", queryId |-> 0]]
    /\ telemetry = NoEvent
    /\ threads = [t \in ThreadIds |-> [queryId |-> 0, questionsStatus |-> "NONE"]]
    /\ rqTasks = << >>
    /\ rqRemote = << >>
    /\ rqCalls = [c \in Callers |-> [pc |-> "idle", thread |-> 0, queryId |-> 0]]
    /\ threadStore = << >>
    /\ responseStore = << >>
    /\ trace = << >>
    /\ effects = NoEffects
    /\ cteCall = [applied |-> FALSE, stepIndex |-> [nil |-> TRUE, value |-> 0],
                  throw |-> "none", sql |-> << >>]
    /\ deploys = [c \in Callers |-> [pc |-> "idle", waitTime |-> 0, fetches |-> 0,
                                      slept |-> 0, last |-> "NONE",
                                      deploySuccess |-> FALSE, status |-> "NONE",
                                      raised |-> FALSE]]
    /\ cancelRequests = 0
    /\ instances = [k \in TrackerKinds |-> [tasks |-> {}, runningJobs |-> {}]]
    /\ answerDetails = << >>
    /\ chartDetails = << >>
    /\ \E body \in WireBodies : statusCall = [applied |-> FALSE, body |-> body]
    /\ deletedThreads = {}

\* The adaptor transforms the body.
ApplyTransformStatusAndError ==
    /\ ~statusCall.applied
    /\ statusCall' = [applied |-> TRUE, body |-> statusCall.body,
                      result |-> transformStatusAndError(statusCall.body)]
    /\ UNCHANGED <<trackerVars, recommendVars, serviceVars, cteVars, deployVars, cancelVars,
                   instanceVars, detailVars, deletionVars>>

NextStatus == ApplyTransformStatusAndError

SpecStatus == InitStatus /\ [][NextStatus]_vars

(***************************************************************************)
(* RubixAdaptor.deploy, waitDeployFinished and getDeployStatus.            *)
(***************************************************************************)
\* Upper bound of waitTime in the loop of waitDeployFinished.
MaxWaitTime == 7

\* Status strings of GET /v1/semantics-preparations/{id}/status.
DeployWireStatus == {"finished", "failed", "indexing", "bogus"}

SleepMillisFixed(waitTime) == 1000

\* setTimeout(resolve, waitTime * 1000)
SleepMillis(waitTime) == waitTime * 1000

\* deploy returns; it has no path that raises.
DeployReturn(d, status) == [d EXCEPT !.pc = "done", !.status = status]

\* deploy is called: the POST of the manifest is in flight.
DeployStart(c) ==
    /\ deploys[c].pc = "idle"
    /\ deploys' = [deploys EXCEPT ![c].pc = "post"]
    /\ UNCHANGED <<trackerVars, recommendVars, serviceVars, cteVars, cancelVars, instanceVars,
                   detailVars, adaptorVars, deletionVars>>

\* The POST resolves: waitDeployFinished starts its loop with waitTime = 1.
DeployPostResolve(c) ==
    /\ deploys[c].pc = "post"
    /\ deploys' = [deploys EXCEPT ![c].pc = "fetch", ![c].waitTime = 1]
    /\ UNCHANGED <<trackerVars, recommendVars, serviceVars, cteVars, cancelVars, instanceVars,
                   detailVars, adaptorVars, deletionVars>>

\* The POST rejects: deploy's catch returns FAILED.
DeployPostReject(c) ==
    /\ deploys[c].pc = "post"
    /\ deploys' = [deploys EXCEPT ![c] = DeployReturn(@, "FAILED")]
    /\ UNCHANGED <<trackerVars, recommendVars, serviceVars, cteVars, cancelVars, instanceVars,
                   detailVars, adaptorVars, deletionVars>>

\* getDeployStatus resolves with the upper-cased status.
DeployStatusResolve(c, wire) ==
    /\ deploys[c].pc = "fetch"
    /\ LET status == toUpperCase(wire)
           d == [deploys[c] EXCEPT !.fetches = @ + 1, !.last = status]
       IN
       deploys' = [deploys EXCEPT ![c] =
                      IF status = "FINISHED"
                      THEN DeployReturn([d EXCEPT !.deploySuccess = TRUE], "SUCCESS")
                      ELSE IF status = "FAILED"
                      THEN DeployReturn(d, "FAILED")
                      ELSE IF status = "INDEXING"
                      THEN [d EXCEPT !.pc = "sleep"]
                      ELSE \* unknown status: waitDeployFinished returns undefined
                           DeployReturn(d, "FAILED")]
    /\ UNCHANGED <<trackerVars, recommendVars, serviceVars, cteVars, cancelVars, instanceVars,
                   detailVars, adaptorVars, deletionVars>>

DeployStatusRejectRaising(c) ==
    /\ deploys[c].pc = "fetch"
    /\ deploys' = [deploys EXCEPT ![c] = [@ EXCEPT !.fetches = @ + 1, !.last = "ERROR",
                                                   !.pc = "done", !.raised = TRUE]]
    /\ UNCHANGED <<trackerVars, recommendVars, serviceVars, cteVars, cancelVars, instanceVars,
                   detailVars, adaptorVars, deletionVars>>

\* getDeployStatus rejects (request error or an error field in the body):
\* waitDeployFinished rethrows and deploy's catch returns FAILED.
DeployStatusReject(c) ==
    /\ deploys[c].pc = "fetch"
    /\ deploys' = [deploys EXCEPT ![c] =
                      DeployReturn([@ EXCEPT !.fetches = @ + 1, !.last = "ERROR"], "FAILED")]
    /\ UNCHANGED <<trackerVars, recommendVars, serviceVars, cteVars, cancelVars, instanceVars,
                   detailVars, adaptorVars, deletionVars>>

\* The timer of the wait fires: waitTime++ and the loop condition is tested.
DeploySleepDone(c) ==
    /\ deploys[c].pc = "sleep"
    /\ LET d == [deploys[c] EXCEPT !.slept = @ + SleepMillis(deploys[c].waitTime),
                                   !.waitTime = @ + 1]
       IN
       deploys' = [deploys EXCEPT ![c] =
                      IF d.waitTime <= MaxWaitTime
                      THEN [d EXCEPT !.pc = "fetch"]
                      ELSE DeployReturn(d, IF d.deploySuccess THEN "SUCCESS" ELSE "FAILED")]
    /\ UNCHANGED <<trackerVars, recommendVars, serviceVars, cteVars, cancelVars, instanceVars,
                   detailVars, adaptorVars, deletionVars>>

NextDeploy ==
    \/ \E c \in Callers : DeployStart(c)
    \/ \E c \in Callers : DeployPostResolve(c)
    \/ \E c \in Callers : DeployPostReject(c)
    \/ \E c \in Callers : \E wire \in DeployWireStatus : DeployStatusResolve(c, wire)
    \/ \E c \in Callers : DeployStatusReject(c)
    \/ \E c \in Callers : DeploySleepDone(c)

SpecDeploy == Init /\ [][NextDeploy]_vars

(***************************************************************************)
(* Properties.                                                             *)
(***************************************************************************)
\* The terminal statuses the properties speak of.
TerminalStatus == {"FINISHED", "FAILED", "STOPPED"}

\* A job of response e holds a fetched terminal status and awaits its write.
FetchedTerminal(e) ==
    \E i \in 1..Len(polls[e]) :
        polls[e][i].pc = "update" /\ polls[e][i].result.status \in TerminalStatus

\* The query id of the newest ask-detail task submitted for response e (0: none).
LatestQueryId(e) ==
    LET qs == {q \in 1..Len(remote) : remote[q].query = e} IN
    IF qs = {} THEN 0 ELSE CHOOSE q \in qs : \A r \in qs : r <= q

\* C1: for every tracked entity and every interleaving of ticks with slow
\* fetches and slow writes, at most one poll of the entity is in flight, and a
\* tick that fires while the entity is marked running starts no fetch for it.
C1_AtMostOnePollInFlight ==
    /\ [](\A e \in ResponseIds : Len(polls[e]) <= 1)
    /\ [][Tick => \A e \in runningJobs : polls'[e] = polls[e]]_vars

\* C1 witness: a poll of e is awaiting its write, e is marked running, and e has
\* been registered again with another query in the meantime.
C1_Witness ==
    \E e \in DOMAIN tasks :
        /\ e \in runningJobs
        /\ Len(polls[e]) = 1
        /\ polls[e][1].pc = "update"
        /\ tasks[e].queryId # polls[e][1].detail.queryId

\* C2: a poll whose fetched status equals the status persisted for the entity
\* (at registration or by an earlier poll) goes on to no persistence write.
C2_NoWriteWhenPersistedStatusFetched ==
    [][\A e \in ResponseIds : \A i \in 1..Len(polls[e]) :
          (/\ polls[e][i].pc = "fetch"
           /\ i <= Len(polls'[e])
           /\ polls'[e][i].pc = "update")
          => polls'[e][i].result.status # db[e].status]_vars

\* C3: once generateThreadResponseBreakdown has returned, the persisted
\* breakdownDetail carries the query id of the newest task submitted for the
\* response; a superseded task's poll never writes its own query id back.
C3_DetailCarriesNewestQueryId ==
    \A e \in ResponseIds :
        (calls[e].pc = "idle" /\ LatestQueryId(e) # 0) => db[e].queryId = LatestQueryId(e)

\* Recommendation task q is still being generated: an invocation holds it, or
\* the tracker tracks it.
Generating(q) ==
    \/ \E c \in Callers : rqCalls[c].pc = "submitted" /\ rqCalls[c].queryId = q
    \/ \E t \in DOMAIN rqTasks : rqTasks[t].queryId = q

\* C4: while a generation for a thread has not finished, a further invocation
\* for that thread submits nothing: at most one recommendation task of the
\* thread is being generated at any time.
C4_OneRecommendationTaskPerThread ==
    \A t \in ThreadIds :
        Cardinality({q \in 1..Len(rqRemote) : rqRemote[q].thread = t /\ Generating(q)}) <= 1

\* C5: after a poll of a tracked entity has failed, the entity is still tracked
\* and a later tick fetches again: a tick issues a fetch for every tracked
\* entity that has no poll in flight.
C5_TickFetchesAfterFailure ==
    [][Tick => \A e \in DOMAIN tasks : polls[e] = << >> => polls'[e] # << >>]_vars

\* Response e's job rejects in this step: it leaves the jobs in flight and the
\* running mark stays.
Rejected(e) == Len(polls'[e]) < Len(polls[e]) /\ e \in runningJobs'

\* C6: a tick starts the poll of every tracked entity that is not running; the
\* rejection of one entity's poll leaves the polls of the other entities in
\* flight and able to run to their end, and the timer can always fire again.
C6_RejectionLeavesSiblings ==
    /\ [][Tick => \A f \in (DOMAIN tasks) \ runningJobs :
                      Len(polls'[f]) = Len(polls[f]) + 1]_vars
    /\ [][\A e \in ResponseIds : Rejected(e) =>
              \A f \in ResponseIds \ {e} :
                  /\ polls'[f] = polls[f]
                  /\ (f \in DOMAIN tasks <=> f \in DOMAIN tasks')
                  /\ (f \in runningJobs <=> f \in runningJobs')]_vars
    /\ [](\A f \in ResponseIds : \A i \in 1..Len(polls[f]) :
              ENABLED (FetchResolve(f, i) \/ UpdateResolve(f, i)))
    /\ [](ENABLED Tick)

\* C6 witness: the poll of e has rejected (e is marked running with nothing in
\* flight) while the poll of its sibling f, started by the same kind of tick,
\* has fetched and awaits its write.
C6_Witness ==
    \E e, f \in DOMAIN tasks :
        /\ e # f
        /\ e \in runningJobs /\ polls[e] = << >>
        /\ Len(polls[f]) = 1 /\ polls[f][1].pc = "update"

\* C7 as stated: a tick may fire in any state, so from the moment a fetch has
\* returned a terminal status the entity is absent from the task set.
C7_AbsentOnceTerminalFetched ==
    \A e \in ResponseIds : FetchedTerminal(e) => e \notin DOMAIN tasks

\* C7 amended: when the poll that fetched a terminal status completes (its
\* persistence write has resolved and the running mark is released), the
\* entity is absent from the task set.
C7_AbsentOncePollCompletes ==
    [][\A e \in ResponseIds :
          (FetchedTerminal(e) /\ e \in runningJobs /\ e \notin runningJobs')
          => e \notin DOMAIN tasks']_vars

\* C7 witness: a poll that fetched STOPPED has completed: the status is
\* persisted, the entity is neither tracked nor marked running.
C7_Witness ==
    \E e \in ResponseIds :
        db[e].status = "STOPPED" /\ e \notin DOMAIN tasks /\ e \notin runningJobs

\* C8: an entity leaves the task set only when a terminal status has been
\* fetched for the task registered for it, and the entity has left the task set
\* when a poll that fetched a terminal status completes.
C8_RemovedIffTerminal ==
    [][\A e \in DOMAIN tasks :
          /\ e \notin DOMAIN tasks' =>
                 \E i \in 1..Len(polls[e]) :
                     /\ polls[e][i].pc = "update"
                     /\ polls[e][i].result.status \in TerminalStatus
                     /\ polls[e][i].detail.queryId = tasks[e].queryId
          /\ (FetchedTerminal(e) /\ e \in runningJobs /\ e \notin runningJobs') =>
                 e \notin DOMAIN tasks']_vars

\* C9: for a task registered with UNDERSTANDING, a poll that fetches
\* UNDERSTANDING ends without a write and leaves the entity tracked; a poll that
\* fetched FINISHED with steps and completes leaves the response's
\* breakdownDetail with exactly those steps (in camelCase), status FINISHED and
\* the polled query id, and the entity deregistered.
C9_BreakdownScenario ==
    [][\A e \in ResponseIds : \A i \in 1..Len(polls[e]) :
          LET p == polls[e][i]
              q == polls[e][i].detail.queryId
          IN
          /\ (/\ p.pc = "fetch"
              /\ i <= Len(polls'[e])
              /\ polls'[e][i].pc = "update")
             => polls'[e][i].result.status # p.detail.status
          /\ (/\ p.pc = "fetch"
              /\ Len(polls'[e]) < Len(polls[e])
              /\ e \notin runningJobs')
             => (db' = db /\ tasks' = tasks)
          /\ (/\ p.pc = "update"
              /\ p.result.status = "FINISHED"
              /\ e \notin runningJobs')
             => /\ db'[e].queryId = q
                /\ db'[e].status = "FINISHED"
                /\ Len(db'[e].steps) = Len(WireSteps(q))
                /\ \A k \in 1..Len(WireSteps(q)) :
                       /\ db'[e].steps[k].summary = WireSteps(q)[k].summary
                       /\ db'[e].steps[k].sql = WireSteps(q)[k].sql
                       /\ db'[e].steps[k].cteName = WireSteps(q)[k].cte_name
                /\ e \notin DOMAIN tasks']_vars

\* C9 witness: the breakdown of e is persisted as FINISHED with its steps and
\* e has been deregistered.
C9_Witness ==
    \E e \in ResponseIds :
        /\ db[e].status = "FINISHED"
        /\ db[e].steps # << >>
        /\ e \notin DOMAIN tasks
        /\ e \notin runningJobs

\* C10: a status that is not a member of the status enumeration is never
\* returned by a fetch as a typed status and never persisted as a detail status.
C10_UnknownStatusNeverPersisted ==
    /\ \A e \in ResponseIds : db[e].status \in AskResultStatus \cup {"NONE"}
    /\ \A e \in ResponseIds : \A i \in 1..Len(polls[e]) :
           polls[e][i].pc = "update" => polls[e][i].result.status \in AskResultStatus

\* The calls recorded in a trace.
Events(t) == {t[i] : i \in 1..Len(t)}

\* Calls that submit a task to the AI service.
RemoteSubmissions ==
    {"wrenAIAdaptor.generateAskDetail", "wrenAIAdaptor.generateChart",
     "wrenAIAdaptor.adjustChart", "wrenAIAdaptor.generateRecommendationQuestions",
     "askingTaskTracker.createAskingTask",
     "adjustmentBackgroundTracker.createAdjustmentTask"}

\* The most recent call looked its entity up, found none and raised not-found:
\* no call after the lookup.
NotFoundOnly(t) ==
    /\ Len(t) = 2
    /\ t[1] \in {"threadResponseRepository.findOneBy", "threadRepository.findOneBy"}
    /\ t[2] = "throw not found"

\* C11: no operation of the service changes the sql of a response that exists:
\* every stored response keeps its sql text in every step.
C11_StoredSqlNeverRewritten ==
    [][\A r \in 1..Len(responseStore) :
          /\ r <= Len(responseStore')
          /\ responseStore'[r].sql = responseStore[r].sql]_vars

\* C12: adjustThreadResponseWithSQL on an existing response r with text s adds
\* exactly one response, with sql s, the thread id and question of r, and an
\* APPLY_SQL adjustment whose originalThreadResponseId is r's id; every response
\* that existed (r included) and every thread is unchanged, and the call submits
\* no remote task.
C12_AdjustWithSqlAppendsRevision ==
    [][\A id \in StoreKeys : \A s \in SqlTexts :
          (id \in 1..Len(responseStore) /\ adjustThreadResponseWithSQL(id, s)) =>
              LET created == responseStore'[Len(responseStore) + 1] IN
              /\ Len(responseStore') = Len(responseStore) + 1
              /\ created.sql = s
              /\ created.threadId = responseStore[id].threadId
              /\ created.question = responseStore[id].question
              /\ created.adjustment.type = "APPLY_SQL"
              /\ created.adjustment.originalThreadResponseId = id
              /\ \A r \in 1..Len(responseStore) : responseStore'[r] = responseStore[r]
              /\ threadStore' = threadStore
              /\ Events(trace') \cap RemoteSubmissions = {}]_vars

\* C12 witness: the newest response is an APPLY_SQL revision of an earlier
\* response whose stored sql is another text, created by the most recent call.
C12_Witness ==
    /\ Len(responseStore) >= 2
    /\ trace = <<"threadResponseRepository.findOneBy",
                 "threadResponseRepository.createOne", "return">>
    /\ LET created == responseStore[Len(responseStore)] IN
       /\ created.adjustment.type = "APPLY_SQL"
       /\ created.adjustment.originalThreadResponseId \in 1..(Len(responseStore) - 1)
       /\ responseStore[created.adjustment.originalThreadResponseId].sql # created.sql

\* The number of steps constructCteSql emits for a list of `length` steps.
Emitted(stepIndex, length) == IF stepIndex.nil THEN length ELSE stepIndex.value + 1

\* The text of a WITH statement over the first n >= 2 steps of a list: "WITH ",
\* then each step but the last as name AS, summary comment, (sql), with a comma
\* after all of them but the second-to-last, then the last step as its summary
\* comment and its bare sql.
IsWithStatement(sql, list, n) ==
    /\ Len(sql) = 9 * n - 5
    /\ sql[1] = "WITH "
    /\ \A k \in 1..(n - 1) :
          LET o == 9 * (k - 1) + 1 IN
          /\ sql[o + 1] = list[k].cteName
          /\ sql[o + 2] = " AS"
          /\ sql[o + 3] = "\n-- "
          /\ sql[o + 4] = list[k].summary
          /\ sql[o + 5] = "\n"
          /\ sql[o + 6] = "("
          /\ sql[o + 7] = list[k].sql
          /\ sql[o + 8] = ")"
          /\ (k <= n - 2 => sql[o + 9] = ",")
    /\ LET o == 9 * n - 9 IN
       /\ sql[o + 1] = "\n-- "
       /\ sql[o + 2] = list[n].summary
       /\ sql[o + 3] = "\n"
       /\ sql[o + 4] = list[n].sql
    /\ Cardinality({i \in 1..Len(sql) : sql[i] = ","}) = n - 2

\* C15: for a step list of length 1 and the cutoff omitted or 0, the result is
\* the comment line of the step's summary, a newline and the step's sql, and it
\* holds no WITH.
C15_SingleStepIsCommentAndSql ==
    (/\ cteCall.applied
     /\ StepsUnderTest.defined
     /\ Len(StepsUnderTest.list) = 1
     /\ (cteCall.stepIndex.nil \/ cteCall.stepIndex.value = 0))
    => /\ cteCall.throw = "none"
       /\ cteCall.sql = <<"-- ", StepsUnderTest.list[1].summary, "\n",
                          StepsUnderTest.list[1].sql>>
       /\ "WITH " \notin Events(cteCall.sql)

\* C15 witness: constructCteSql has been applied to a one-step list with cutoff 0.
C15_Witness ==
    /\ cteCall.applied
    /\ StepsUnderTest.defined
    /\ Len(StepsUnderTest.list) = 1
    /\ ~cteCall.stepIndex.nil
    /\ cteCall.stepIndex.value = 0
    /\ cteCall.throw = "none"

\* C16 as stated: for a step list of length >= 2 and every cutoff in [0, len),
\* or none, the result is a WITH statement over the first cutoff+1 (or all) steps.
C16_WithStatementForEveryValidCutoff ==
    (/\ cteCall.applied
     /\ StepsUnderTest.defined
     /\ Len(StepsUnderTest.list) >= 2
     /\ (cteCall.stepIndex.nil
         \/ cteCall.stepIndex.value \in 0..(Len(StepsUnderTest.list) - 1)))
    => /\ cteCall.throw = "none"
       /\ IsWithStatement(cteCall.sql, StepsUnderTest.list,
                          Emitted(cteCall.stepIndex, Len(StepsUnderTest.list)))

\* C16 amended: for a step list of length >= 2 and every cutoff in [1, len), or
\* none, the result is a WITH statement over the first cutoff+1 (or all) steps;
\* with cutoff 0 the result is the single-step text of the first step, without
\* WITH.
C16_WithStatementForCutoffFromOne ==
    /\ (/\ cteCall.applied
        /\ StepsUnderTest.defined
        /\ Len(StepsUnderTest.list) >= 2
        /\ (cteCall.stepIndex.nil
            \/ cteCall.stepIndex.value \in 1..(Len(StepsUnderTest.list) - 1)))
       => /\ cteCall.throw = "none"
          /\ IsWithStatement(cteCall.sql, StepsUnderTest.list,
                             Emitted(cteCall.stepIndex, Len(StepsUnderTest.list)))
    /\ (/\ cteCall.applied
        /\ StepsUnderTest.defined
        /\ Len(StepsUnderTest.list) >= 2
        /\ ~cteCall.stepIndex.nil
        /\ cteCall.stepIndex.value = 0)
       => /\ cteCall.throw = "none"
          /\ cteCall.sql = <<"-- ", StepsUnderTest.list[1].summary, "\n",
                             StepsUnderTest.list[1].sql>>

\* C16 witness: constructCteSql has been applied to three steps with no cutoff;
\* the text has one comma.
C16_Witness ==
    /\ cteCall.applied
    /\ StepsUnderTest.defined
    /\ Len(StepsUnderTest.list) = 3
    /\ cteCall.stepIndex.nil
    /\ cteCall.throw = "none"
    /\ Cardinality({i \in 1..Len(cteCall.sql) : cteCall.sql[i] = ","}) = 1

\* C17: constructCteSql raises the step-index error and returns no SQL exactly
\* when a cutoff is given that is < 0 or >= the number of steps; for a cutoff in
\* [0, number of steps) and for no cutoff it raises nothing.
C17_InvalidCutoffRaises ==
    (cteCall.applied /\ StepsUnderTest.defined)
    => IF /\ ~cteCall.stepIndex.nil
          /\ (\/ cteCall.stepIndex.value < 0
              \/ cteCall.stepIndex.value >= Len(StepsUnderTest.list))
       THEN cteCall.throw = "Invalid stepIndex" /\ cteCall.sql = << >>
       ELSE cteCall.throw = "none"

\* C17 witness: a cutoff equal to the number of steps of a non-empty list raised.
C17_Witness ==
    /\ cteCall.applied
    /\ StepsUnderTest.defined
    /\ Len(StepsUnderTest.list) >= 1
    /\ ~cteCall.stepIndex.nil
    /\ cteCall.stepIndex.value = Len(StepsUnderTest.list)
    /\ cteCall.throw = "Invalid stepIndex"

\* The step leaves the rows of both stores as they are and its call ended as a
\* bare not-found.
FailsNotFound ==
    /\ NotFoundOnly(trace')
    /\ Events(trace') \cap RemoteSubmissions = {}
    /\ responseStore' = responseStore
    /\ threadStore' = threadStore
    /\ tasks' = tasks
    /\ rqTasks' = rqTasks

\* C18: every operation that takes a thread-response id or a thread id and is
\* called with an id of no stored row raises not-found after its lookup, with no
\* remote submission, no persistence write and no tracker registration.
C18_MissingEntityRaisesNotFound ==
    [][/\ \A id \in StoreKeys :
            (/\ id \notin 1..Len(responseStore)
             /\ \/ generateThreadResponseBreakdown(id)
                \/ generateThreadResponseAnswer(id)
                \/ generateThreadResponseChart(id)
                \/ adjustThreadResponseChart(id)
                \/ \E s \in AskedSqlTexts : adjustThreadResponseWithSQL(id, s)
                \/ adjustThreadResponseAnswer(id)
                \/ \E t \in 0..1 : rerunAskingTask(id, t)
                \/ \E s \in AskedSqlTexts : updateThreadResponse(id, s)
                \/ \E ok \in BOOLEAN : previewData(id, ok)
                \/ \E i \in PreviewedIndexes : \E ok \in BOOLEAN : previewBreakdownData(id, i, ok)
                \/ \E same \in BOOLEAN : changeThreadResponseAnswerDetailStatus(id, same))
            => FailsNotFound
       /\ \A t \in StoreKeys :
            (/\ t \notin 1..Len(threadStore)
             /\ \/ \E q \in AskedQuestions : \E s \in AskedSqlTexts : \E k \in TaskIds :
                      createThreadResponse(t, q, s, k)
                \/ \E registered \in BOOLEAN : generateThreadRecommendationQuestions(t, registered)
                \/ getThreadRecommendationQuestions(t))
            => FailsNotFound]_vars

\* C18 witness: with responses stored, the most recent call named a thread that
\* does not exist and ended as a bare not-found.
C18_Witness ==
    /\ responseStore # << >>
    /\ Len(threadStore) < MaxStored
    /\ trace = <<"threadRepository.findOneBy", "throw not found">>

\* C19: a previewBreakdownData call that raises the step-index validation error
\* has made no call before raising it: no persistence read, no project or
\* deployment lookup, no query execution.
C19_StepIndexValidatedBeforeIO ==
    (trace # << >> /\ trace[Len(trace)] = "throw validation") => trace = <<"throw validation">>

\* C20: updateThread with an empty update payload raises the validation error
\* before any call: the thread repository is neither read nor written and every
\* thread keeps its summary.
C20_EmptyUpdateRaisesBeforeIO ==
    [][\A t \in StoreKeys : \A input \in UpdateInputs :
          (input.keys = {} /\ updateThread(t, input)) =>
              /\ trace' = <<"throw validation">>
              /\ threadStore' = threadStore
              /\ responseStore' = responseStore]_vars

\* C20 witness: a thread exists and the most recent call raised the validation
\* error with nothing before it.
C20_Witness ==
    /\ threadStore # << >>
    /\ trace = <<"throw validation">>

\* C13: a cancel request is one remote call and changes neither a task set, nor
\* a running mark, nor a poll in flight, nor a persisted detail; an entity
\* leaves the tracker only in the step that completes a poll which fetched a
\* terminal status.
C13_CancelLeavesTrackerAlone ==
    /\ [][cancelRequests' # cancelRequests =>
              /\ cancelRequests' = cancelRequests + 1
              /\ tasks' = tasks
              /\ runningJobs' = runningJobs
              /\ polls' = polls
              /\ db' = db]_vars
    /\ [][\A e \in DOMAIN tasks :
              e \notin DOMAIN tasks' =>
                  /\ FetchedTerminal(e)
                  /\ Len(polls'[e]) < Len(polls[e])
                  /\ db'[e].status \in TerminalStatus]_vars

\* C13 witness: a cancel request has been sent and an entity is still tracked,
\* its persisted detail that of its registered task with a non-terminal status.
C13_Witness ==
    /\ cancelRequests > 0
    /\ \E e \in DOMAIN tasks :
          /\ db[e].status \notin TerminalStatus
          /\ db[e].queryId = tasks[e].queryId

\* C14: a deploy whose status fetches all returned INDEXING has made exactly
\* MaxWaitTime = 7 fetches, has waited 1000, 2000, ... 7000 ms after them (28 s
\* in total) and has returned FAILED; the k-th wait lasts k seconds.
C14_DeployWaitGivesUpAfterSevenFetches ==
    /\ [](\A c \in Callers :
             (deploys[c].pc = "done" /\ deploys[c].last = "INDEXING") =>
                 /\ deploys[c].fetches = 7
                 /\ deploys[c].slept = 28000
                 /\ deploys[c].status = "FAILED"
                 /\ ~deploys[c].raised)
    /\ [][\A c \in Callers :
              deploys'[c].slept # deploys[c].slept =>
                  /\ deploys'[c].slept - deploys[c].slept = 1000 * deploys[c].fetches
                  /\ deploys[c].fetches \in 1..7
                  /\ deploys'[c].fetches = deploys[c].fetches]_vars

\* C14 witness: a deploy has given up after seven INDEXING answers.
C14_Witness ==
    \E c \in Callers :
        /\ deploys[c].pc = "done"
        /\ deploys[c].last = "INDEXING"
        /\ deploys[c].fetches = 7
        /\ deploys[c].status = "FAILED"

\* C21: the tracker's task set is keyed by the entity id: a registration of e
\* leaves exactly one entry for e, holding the newly registered detail, and
\* every other entry as it was; no step leaves more than one poll of an entity
\* in flight.
C21_OneTaskPerEntity ==
    /\ [][\A e \in ResponseIds :
              (calls[e].pc = "submitted" /\ calls'[e].pc = "idle") =>
                  /\ DOMAIN tasks' = DOMAIN tasks \cup {e}
                  /\ tasks'[e] = PendingDetail(calls[e].queryId)
                  /\ \A f \in DOMAIN tasks : f # e => tasks'[f] = tasks[f]
                  /\ Len(polls'[e]) <= 1]_vars
    /\ [](DOMAIN tasks \subseteq ResponseIds
          /\ \A e \in ResponseIds : \A i, j \in 1..Len(polls[e]) : i = j)

\* C21 witness: e has been registered twice; its one entry holds the second
\* query while the one poll in flight still holds the first.
C21_Witness ==
    \E e \in DOMAIN tasks :
        /\ tasks[e].queryId = 2
        /\ remote[1].query = e
        /\ Len(polls[e]) = 1
        /\ polls[e][1].detail.queryId = 1

C28_TerminalFailureIsFinal ==
    /\ [][\A e \in ResponseIds : \A i \in 1..Len(polls[e]) :
              (UpdateResolve(e, i) /\ polls[e][i].result.status \in {"FAILED", "STOPPED"}) =>
                  /\ db'[e].status = polls[e][i].result.status
                  /\ db'[e].error = polls[e][i].result.error
                  /\ e \notin DOMAIN tasks'
                  /\ polls'[e] = << >>]_vars
    /\ [][\A e \in ResponseIds :
              (db[e].status \in {"FAILED", "STOPPED"} /\ db'[e] # db[e]) =>
                  /\ calls[e].pc = "submitted"
                  /\ db'[e] = PendingDetail(calls[e].queryId)
                  /\ polls'[e] = polls[e]]_vars

\* C28 witness: a FAILED detail with the error of the AI service is persisted,
\* the entity is no longer tracked, and a later tick has started nothing for it.
C28_Witness ==
    \E e \in ResponseIds :
        /\ db[e].status = "FAILED"
        /\ db[e].error = "NO_RELEVANT_SQL"
        /\ e \notin DOMAIN tasks
        /\ e \notin runningJobs
        /\ polls[e] = << >>
        /\ ~telemetry.sent

\* C22: a step of one tracker instance (a registration, a tick that marks its
\* jobs running, a release, a removal) leaves the task set and the running guard
\* of every other instance as they were, and a tick of an instance marks and
\* polls every task of its own that it has not marked itself, whatever the
\* other instances have marked.
C22_InstancesAreIndependent ==
    /\ [][\A k \in TrackerKinds :
              (\/ InstanceTick(k)
               \/ \E e \in ResponseIds :
                     \/ InstanceAddTask(k, e)
                     \/ InstanceRelease(k, e)
                     \/ InstanceFinalize(k, e))
              => \A j \in TrackerKinds \ {k} : instances'[j] = instances[j]]_vars
    /\ [][\A k \in TrackerKinds :
              InstanceTick(k) =>
                  \A e \in instances[k].tasks :
                      e \notin instances[k].runningJobs =>
                          /\ e \in instances'[k].runningJobs
                          /\ e \in instances'[k].tasks]_vars

\* C22 witness: one response is marked running in the breakdown tracker and in
\* the chart tracker at once, and the text answer tracker does not hold it.
C22_Witness ==
    \E e \in ResponseIds :
        /\ e \in instances["breakdown"].runningJobs
        /\ e \in instances["chart"].tasks
        /\ e \in instances["chart"].runningJobs
        /\ e \notin instances["textBasedAnswer"].tasks

\* The response reached from r after following at most n adjustment links.
RECURSIVE Origin(_, _)
Origin(r, n) ==
    IF n = 0 \/ responseStore[r].adjustment.type = "NONE"
    THEN r
    ELSE Origin(responseStore[r].adjustment.originalThreadResponseId, n - 1)

ThreadRows(t) == {i \in 1..Len(responseStore) : responseStore[i].threadId = t}

\* The k-th largest member of ids.
Newest(ids, k) == CHOOSE x \in ids : Cardinality({y \in ids : y > x}) = k - 1

\* The number of remote submissions among the calls of a trace.
Submissions(t) == Cardinality({i \in 1..Len(t) : t[i] \in RemoteSubmissions})

\* The calls generateThreadRecommendationQuestions makes on a thread that the
\* tracker does not hold.
IdleRecommendation ==
    <<"threadRepository.findOneBy", "threadRecommendQuestionBackgroundTracker.isExist",
      "projectService.getCurrentProject", "mdlService.makeCurrentModelMDL",
      "threadResponseRepository.findAllBy", "wrenAIAdaptor.generateRecommendationQuestions",
      "threadRepository.updateOne", "threadRecommendQuestionBackgroundTracker.addTask",
      "return">>

\* C24: a call on a thread that is not registered with the recommendation
\* tracker makes one remote submission, and its previousQuestions has min(n, 5)
\* entries for a thread of n responses, the k-th being the question of the
\* response with the k-th largest id.
C24_RecommendationUsesFiveNewestQuestions ==
    /\ trace = IdleRecommendation <=> effects.submitted.kind = "question-recommendation"
    /\ effects.submitted.kind = "question-recommendation" =>
          LET ids == ThreadRows(effects.asked.threadId)
              n == Cardinality(ids)
              asked == effects.submitted
          IN
          /\ Submissions(trace) = 1
          /\ Len(asked.previousQuestions) = (IF n < 5 THEN n ELSE 5)
          /\ \A k \in 1..Len(asked.previousQuestions) :
                asked.previousQuestions[k] = responseStore[Newest(ids, k)].question

\* C24 witness: a thread of at least six responses, with a response of another
\* thread among the newest, got a request with five questions, the newest first.
C24_Witness ==
    /\ effects.submitted.kind = "question-recommendation"
    /\ effects.asked.threadId = 1
    /\ Cardinality(ThreadRows(1)) >= 6
    /\ ThreadRows(2) # {}
    /\ Len(effects.submitted.previousQuestions) = 5
    /\ effects.submitted.previousQuestions[1] = responseStore[Len(responseStore)].question

\* The registrations with a tracker among the calls of the service.
AddTaskCalls ==
    {"breakdownBackgroundTracker.addTask", "textBasedAnswerBackgroundTracker.addTask",
     "chartBackgroundTracker.addTask", "chartAdjustmentBackgroundTracker.addTask",
     "threadRecommendQuestionBackgroundTracker.addTask"}

\* The step's call made, after its lookup, the submission, then the write of the
\* pending detail with the returned query id, then the registration, and no
\* other call.
PendingInOrder(submission, field, status, tracker, registration) ==
    /\ trace' = <<"threadResponseRepository.findOneBy", submission,
                  "threadResponseRepository.updateOne", registration, "return">>
    /\ effects'.queryId \in QueryIds
    /\ effects'.written = [field |-> field, queryId |-> effects'.queryId, status |-> status]
    /\ effects'.registered = [tracker |-> tracker, detail |-> effects'.written]

\* C25: generateThreadResponseBreakdown and generateThreadResponseChart on a
\* stored response make one submission, then one write of the pending detail
\* (UNDERSTANDING, FETCHING) with the returned query id, then the registration
\* of the response with that detail; in no call of the service does a
\* registration come before the write of the detail it registers.
C25_SubmitThenPersistThenRegister ==
    /\ [][\A id \in 1..Len(responseStore) :
              /\ generateThreadResponseBreakdown(id) =>
                     PendingInOrder("wrenAIAdaptor.generateAskDetail", "breakdownDetail",
                                    "UNDERSTANDING", "breakdownBackgroundTracker",
                                    "breakdownBackgroundTracker.addTask")
              /\ generateThreadResponseChart(id) =>
                     PendingInOrder("wrenAIAdaptor.generateChart", "chartDetail",
                                    "FETCHING", "chartBackgroundTracker",
                                    "chartBackgroundTracker.addTask")]_vars
    /\ [](\A j \in 1..Len(trace) :
             trace[j] \in AddTaskCalls =>
                 /\ effects.registered.detail = effects.written
                 /\ \E i \in 1..(j - 1) : trace[i] \in {"threadResponseRepository.updateOne",
                                                        "threadRepository.updateOne"})

\* C25 witness: the most recent call generated a chart: the task with query id 2
\* was submitted, its FETCHING detail written, and the response registered.
C25_Witness ==
    /\ trace = <<"threadResponseRepository.findOneBy", "wrenAIAdaptor.generateChart",
                 "threadResponseRepository.updateOne", "chartBackgroundTracker.addTask",
                 "return">>
    /\ effects.queryId = 2
    /\ effects.written = [field |-> "chartDetail", queryId |-> 2, status |-> "FETCHING"]
    /\ effects.registered.detail = effects.written

\* C26 as stated: generateThreadResponseAnswer on a stored response makes one
\* remote submission, writes an answerDetail with the query id of that task and
\* registers the response with the text answer tracker.
C26_AnswerSubmitsAndCarriesQueryId ==
    [][\A id \in 1..Len(responseStore) :
          generateThreadResponseAnswer(id) =>
              /\ Submissions(trace') = 1
              /\ "queryId" \in DOMAIN effects'.written
              /\ effects'.registered.tracker = "textBasedAnswerBackgroundTracker"]_vars

\* C26 amended: generateThreadResponseAnswer on a stored response makes no
\* remote submission; it writes the answerDetail { status: NOT_STARTED }, which
\* has no query id, and then registers the updated response with the text answer
\* tracker.
C26_AnswerIsRegisteredNotStarted ==
    [][\A id \in 1..Len(responseStore) :
          generateThreadResponseAnswer(id) =>
              /\ trace' = <<"threadResponseRepository.findOneBy",
                            "threadResponseRepository.updateOne",
                            "textBasedAnswerBackgroundTracker.addTask", "return">>
              /\ Submissions(trace') = 0
              /\ effects'.submitted = NoPayload
              /\ effects'.queryId = 0
              /\ effects'.written = [field |-> "answerDetail", status |-> "NOT_STARTED"]
              /\ effects'.registered = [tracker |-> "textBasedAnswerBackgroundTracker",
                                        detail |-> effects'.written]
              /\ responseStore' = responseStore]_vars

\* C26 witness: the most recent call registered a stored response with the text
\* answer tracker, its answerDetail written as NOT_STARTED with nothing submitted.
C26_Witness ==
    /\ responseStore # << >>
    /\ effects.registered.tracker = "textBasedAnswerBackgroundTracker"
    /\ effects.written = [field |-> "answerDetail", status |-> "NOT_STARTED"]
    /\ effects.submitted = NoPayload

\* The number of responses of thread t with an id of at least j.
Rank(t, j) == Cardinality({y \in ThreadRows(t) : y >= j})

\* The histories of the submitted task are those of thread t without response
\* `exclude`: for no thread (0) none is resolved and the request has an empty
\* list; otherwise they are exactly the responses among the 10 newest of t that
\* have SQL and are not `exclude`, the newest first, and the request carries
\* their sql and question.
HistoryIsOf(t, exclude) ==
    LET task == effects.submitted IN
    IF t = 0
    THEN /\ task.histories.isNull
         /\ task.request.histories = << >>
         /\ "threadResponseRepository.getResponsesWithThread" \notin Events(trace)
    ELSE LET list == task.histories.list IN
         /\ ~task.histories.isNull
         /\ Len(list) <= 10
         /\ \A i \in 1..Len(list) :
               /\ list[i].id \in ThreadRows(t)
               /\ list[i].id # exclude
               /\ responseStore[list[i].id].sql # ""
               /\ Rank(t, list[i].id) <= 10
               /\ \A j \in (i + 1)..Len(list) : list[i].id > list[j].id
         /\ \A j \in ThreadRows(t) :
               (Rank(t, j) <= 10 /\ responseStore[j].sql # "" /\ j # exclude) =>
                   \E i \in 1..Len(list) : list[i].id = j
         /\ task.request.histories =
              [i \in 1..Len(list) |-> [sql |-> responseStore[list[i].id].sql,
                                       question |-> responseStore[list[i].id].question]]

\* C29: a rerunAskingTask call on a stored response has submitted one asking
\* task with the response's question, rerunFromCancelled set, the response's
\* askingTaskId as previousTaskId and the response id as threadResponseId;
\* whatever thread the payload named, the history is that of the response's own
\* thread, and it does not hold the response.
C29_RerunAsksAgainForTheResponse ==
    effects.asked.threadResponseId # 0 =>
        LET id == effects.asked.threadResponseId
            task == effects.submitted
        IN
        /\ Submissions(trace) = 1
        /\ task.kind = "ask"
        /\ task.query = responseStore[id].question
        /\ task.request.query = responseStore[id].question
        /\ task.rerunFromCancelled
        /\ task.previousTaskId = responseStore[id].askingTaskId
        /\ task.threadResponseId = id
        /\ ~task.histories.isNull
        /\ \A i \in 1..Len(task.histories.list) :
              /\ task.histories.list[i].id # id
              /\ task.histories.list[i].threadId = responseStore[id].threadId
        /\ \A j \in ThreadRows(responseStore[id].threadId) :
              (/\ j # id
               /\ responseStore[j].sql # ""
               /\ Rank(responseStore[id].threadId, j) <= 10) =>
                  \E i \in 1..Len(task.histories.list) : task.histories.list[i].id = j

\* C29 witness: a response of thread 1 that has a tracked asking task was rerun
\* with a payload naming thread 2; the history holds newer and older responses
\* of thread 1.
C29_Witness ==
    /\ effects.submitted.kind = "ask"
    /\ effects.submitted.rerunFromCancelled
    /\ effects.asked.threadId = 2
    /\ effects.submitted.previousTaskId # 0
    /\ LET id == effects.asked.threadResponseId
           list == effects.submitted.histories.list
       IN
       /\ responseStore[id].threadId = 1
       /\ \E i \in 1..Len(list) : list[i].id > id
       /\ \E i \in 1..Len(list) : list[i].id < id

\* C30: the history of a submitted asking task for a thread holds exactly the
\* responses among the 10 newest of that thread that have SQL and are not the
\* excluded response, the newest first; without a thread id no history is read
\* and the request has an empty history list.
C30_HistoryOfAskingTask ==
    effects.submitted.kind = "ask" =>
        IF effects.asked.threadResponseId # 0
        THEN HistoryIsOf(responseStore[effects.asked.threadResponseId].threadId,
                         effects.asked.threadResponseId)
        ELSE HistoryIsOf(effects.asked.threadId, 0)

\* C30 witness: a question was asked in a thread of eleven responses, one of the
\* ten newest without SQL: the history has nine entries, the oldest is response 2.
C30_Witness ==
    /\ effects.submitted.kind = "ask"
    /\ ~effects.submitted.rerunFromCancelled
    /\ effects.asked.threadId = 1
    /\ Cardinality(ThreadRows(1)) >= 11
    /\ LET list == effects.submitted.histories.list IN
       /\ Len(list) = 9
       /\ list[9].id = 2
       /\ list[1].id = Len(responseStore)

\* C36: a deploy that has ended has not raised and has returned SUCCESS or
\* FAILED: SUCCESS exactly when its last status fetch, one of the first 7,
\* answered FINISHED; a status fetch is issued only as the first one or after
\* a fetch that answered INDEXING, so every fetch before the last answered
\* INDEXING and none follows an answer that is not INDEXING.
C36_DeployReturnsSuccessOrFailed ==
    /\ [](\A c \in Callers :
             deploys[c].pc = "done" =>
                 /\ ~deploys[c].raised
                 /\ deploys[c].status \in {"SUCCESS", "FAILED"}
                 /\ deploys[c].status = "SUCCESS" <=>
                        (deploys[c].last = "FINISHED" /\ deploys[c].fetches \in 1..7))
    /\ [][\A c \in Callers :
              deploys'[c].fetches # deploys[c].fetches =>
                  /\ deploys'[c].fetches = deploys[c].fetches + 1
                  /\ deploys[c].fetches < 7
                  /\ deploys[c].fetches = 0 \/ deploys[c].last = "INDEXING"
                  /\ deploys[c].pc = "fetch"]_vars

\* C36 witness: one deploy returned SUCCESS on its third fetch, another returned
\* FAILED after a status fetch that ended in an error.
C36_Witness ==
    \E c, d \in Callers :
        /\ deploys[c].pc = "done"
        /\ deploys[c].status = "SUCCESS"
        /\ deploys[c].fetches = 3
        /\ deploys[d].pc = "done"
        /\ deploys[d].status = "FAILED"
        /\ deploys[d].last = "ERROR"
        /\ ~deploys[d].raised

\* Call a is made before call b in trace t.
Precedes(t, a, b) == \E i, j \in 1..Len(t) : i < j /\ t[i] = a /\ t[j] = b

\* The number of times call a is made in trace t.
Times(t, a) == Cardinality({i \in 1..Len(t) : t[i] = a})

\* The step stored one new response, of thread threadId and asking task taskId,
\* and bound the asking task to it exactly when taskId is given (not 0): one
\* bindThreadResponse call, made after the response was created, with the task
\* id, its query id, the thread id and the id of the new response.
CreatedAndBound(threadId, taskId) ==
    LET id == Len(responseStore) + 1 IN
    /\ Len(responseStore') = id
    /\ \A r \in 1..Len(responseStore) : responseStore'[r] = responseStore[r]
    /\ responseStore'[id].threadId = threadId
    /\ responseStore'[id].askingTaskId = taskId
    /\ Times(trace', "threadResponseRepository.createOne") = 1
    /\ IF taskId # 0
       THEN /\ Times(trace', "askingTaskTracker.bindThreadResponse") = 1
            /\ Precedes(trace', "threadResponseRepository.createOne",
                        "askingTaskTracker.bindThreadResponse")
            /\ effects'.registered =
                 [tracker |-> "askingTaskTracker", taskId |-> taskId,
                  queryId |-> trackedAskingResult(taskId).queryId,
                  threadId |-> threadId, threadResponseId |-> id]
       ELSE /\ Times(trace', "askingTaskTracker.bindThreadResponse") = 0
            /\ effects'.registered = NoRegistration

\* C31: createThread stores a thread and its first response, createThreadResponse
\* on a stored thread stores a response, and each then binds the tracked asking
\* task to the new response if and only if the input carries a task id; on a
\* thread that is not stored createThreadResponse creates and binds nothing.
C31_BindsIffTracked ==
    [][\A q \in Questions : \A sql \in SqlTexts : \A taskId \in TaskIds :
          /\ createThread(q, sql, taskId) =>
                /\ Len(threadStore') = Len(threadStore) + 1
                /\ Precedes(trace', "threadRepository.createOne",
                            "threadResponseRepository.createOne")
                /\ CreatedAndBound(Len(threadStore) + 1, taskId)
          /\ \A t \in StoreKeys :
                createThreadResponse(t, q, sql, taskId) =>
                    /\ threadStore' = threadStore
                    /\ IF t \in 1..Len(threadStore)
                       THEN CreatedAndBound(t, taskId)
                       ELSE /\ responseStore' = responseStore
                            /\ Times(trace', "threadResponseRepository.createOne") = 0
                            /\ Times(trace', "askingTaskTracker.bindThreadResponse") = 0
                            /\ effects'.registered = NoRegistration]_vars

\* C31 witness: the second response of a thread was created for a tracked asking
\* task and bound to it, the first one was created without a task.
C31_Witness ==
    /\ Len(responseStore) = 2
    /\ responseStore[1].askingTaskId = 0
    /\ responseStore[2].askingTaskId # 0
    /\ trace = <<"threadRepository.findOneBy", "threadResponseRepository.createOne",
                 "askingTaskTracker.bindThreadResponse", "return">>
    /\ effects.registered.tracker = "askingTaskTracker"
    /\ effects.registered.threadResponseId = 2
    /\ effects.registered.threadId = 1

\* The events sent to telemetry in trace t.
TelemetryEvents(t) ==
    Times(t, "telemetry.sendEvent") + Times(t, "telemetry.sendEvent failure")

\* The trace ends with the guarded call, one plain event and the return.
ReportedSuccess(t, call) ==
    /\ Len(t) >= 3
    /\ SubSeq(t, Len(t) - 2, Len(t)) = <<call, "telemetry.sendEvent", "return">>
    /\ TelemetryEvents(t) = 1

\* The trace ends with the guarded call, one event flagged as a failure and the
\* error of the call raised to the caller.
ReportedFailure(t, call, err) ==
    /\ Len(t) >= 3
    /\ SubSeq(t, Len(t) - 2, Len(t)) = <<call, "telemetry.sendEvent failure", "throw " \o err>>
    /\ TelemetryEvents(t) = 1

\* What a call that reached its guarded collaborator call has done.
Reported(t, call, ok, err) ==
    IF ok THEN ReportedSuccess(t, call) ELSE ReportedFailure(t, call, err)

\* C32: a cancelAskingTask call, a previewData call on a stored response and a
\* previewBreakdownData call that has built its SQL each send exactly one
\* telemetry event: a plain one followed by the return when the guarded call
\* resolves, one flagged as a failure followed by the error of the guarded call
\* raised to the caller when it rejects; a call that does not reach the guarded
\* call sends none.
C32_OneTelemetryEventPerGuardedCall ==
    [][/\ \A taskId \in 1..MaxQueries : \A ok \in BOOLEAN :
             cancelAskingTask(taskId, ok) =>
                 Reported(trace', "askingTaskTracker.cancelAskingTask", ok, "cancel")
       /\ \A id \in 1..2 : \A ok \in BOOLEAN :
             /\ previewData(id, ok) =>
                   IF ResponseExists(id)
                   THEN Reported(trace', "queryService.preview", ok, "preview")
                   ELSE TelemetryEvents(trace') = 0
             /\ \A stepIndex \in StepIndexes :
                   previewBreakdownData(id, stepIndex, ok) =>
                       IF /\ ResponseExists(id)
                          /\ constructCteSql(responseStore[id].breakdownSteps,
                                             stepIndex).throw = "none"
                       THEN Reported(trace', "queryService.preview", ok, "preview")
                       ELSE TelemetryEvents(trace') = 0]_vars

\* C32 witness: a cancel request has been made and the most recent call, a
\* preview of the breakdown of a stored response, failed in the query service.
C32_Witness ==
    /\ cancelRequests > 0
    /\ trace = <<"threadResponseRepository.findOneBy", "projectService.getCurrentProject",
                 "deployService.getLastDeployment", "queryService.preview",
                 "telemetry.sendEvent failure", "throw preview">>

\* C34: the typed status of a body whose status field is a non-empty string is
\* that string in upper case, whatever its spelling; transforming a body whose
\* status is already the typed one gives the same status; a body with no status
\* or an empty one raises the error and yields no result.
C34_StatusIsUpperCased ==
    statusCall.applied =>
        LET s == statusCall.body.status
            result == statusCall.result
        IN
        IF s = undefined \/ s = ""
        THEN result.throw
        ELSE /\ ~result.throw
             /\ \E w \in Spellings :
                   /\ s \in {w.lower, w.capital, w.upper}
                   /\ result.status = w.upper
             /\ LET again == transformStatusAndError(
                                 [statusCall.body EXCEPT !.status = result.status])
                IN ~again.throw /\ again.status = result.status

\* C34 witness: a body with status "Finished" was given the status FINISHED.
C34_Witness ==
    /\ statusCall.applied
    /\ statusCall.body.status = "Finished"
    /\ ~statusCall.result.throw
    /\ statusCall.result.status = "FINISHED"

\* C37: after initialize the task set of the breakdown tracker holds exactly
\* the persisted responses whose breakdownDetail has a status that is not
\* FAILED, FINISHED or STOPPED, each with its persisted detail; a response
\* without breakdownDetail or with a terminal status is not registered.
C37_InitializeRegistersUnfinished ==
    [][initialize =>
          /\ DOMAIN tasks' =
                {e \in ResponseIds : /\ db[e] # NoDetail
                                     /\ db[e].status \notin {"FAILED", "FINISHED", "STOPPED"}}
          /\ \A e \in DOMAIN tasks' : tasks'[e] = db[e]
          /\ db' = db]_vars

\* C37 witness: of two persisted responses, one finished and one still
\* searching, the tracker holds the second only.
C37_Witness ==
    /\ db[1].status = "FINISHED"
    /\ db[2].status = "SEARCHING"
    /\ DOMAIN tasks = {2}
    /\ tasks[2] = db[2]
    /\ runningJobs = {}

\* The responses of the deleted threads.
ResponsesOfDeleted(deleted) ==
    {e \in 1..Len(responseStore) : responseStore[e].threadId \in deleted}

\* C40: deleteThread and deleteAllByProjectId leave the task set and the
\* running guard of every tracker as they are, and a tick that follows marks
\* and polls every task that is not marked, the responses of deleted threads
\* among them.  (A deletion that changes neither the deleted threads nor the
\* recorded calls changes nothing at all.)
C40_DeletionLeavesTrackersAlone ==
    [][/\ (/\ <<deletedThreads, trace>>' # <<deletedThreads, trace>>
           /\ \/ \E t \in 1..(Len(threadStore) + 1) : deleteThread(t)
              \/ \E p \in ProjectIds : deleteAllByProjectId(p))
          => /\ instances' = instances
             /\ tasks' = tasks
             /\ runningJobs' = runningJobs
             /\ rqTasks' = rqTasks
             /\ \A k \in TrackerKinds :
                  ResponsesOfDeleted(deletedThreads') \cap instances[k].tasks
                     \subseteq instances'[k].tasks
       /\ \A k \in TrackerKinds :
            InstanceTick(k)
            => /\ instances'[k].tasks = instances[k].tasks
               /\ ResponsesOfDeleted(deletedThreads) \cap instances[k].tasks
                     \subseteq instances'[k].runningJobs]_vars

\* C40 witness: the thread of response 1 has been deleted with the whole
\* project, and the breakdown tracker still holds response 1 and has it marked
\* as polled, while the chart tracker holds it unmarked.
C40_Witness ==
    /\ trace = <<"threadRepository.deleteAllBy", "return">>
    /\ 1 \in ResponsesOfDeleted(deletedThreads)
    /\ 1 \in instances["breakdown"].tasks
    /\ 1 \in instances["breakdown"].runningJobs
    /\ 1 \in instances["chart"].tasks
    /\ 1 \notin instances["chart"].runningJobs

C33_AdjustChartCarriesStoredSchema ==
    [][\A id \in 1..Len(responseStore) : \A input \in ChartAdjustmentOptions :
          AdjustStoredChart(id, input, TRUE) =>
             /\ trace' = <<"threadResponseRepository.findOneBy", "wrenAIAdaptor.adjustChart",
                           "threadResponseRepository.updateOne",
                           "chartAdjustmentBackgroundTracker.addTask", "return">>
             /\ effects'.submitted.kind = "chart-adjustment"
             /\ effects'.submitted.request.chart_schema =
                   (IF id \in DOMAIN chartDetails THEN chartDetails[id].chartSchema
                                                  ELSE undefined)
             /\ effects'.submitted.request.query = responseStore[id].question
             /\ effects'.submitted.request.sql = responseStore[id].sql
             /\ effects'.queryId \in QueryIds
             /\ chartDetails'[id] = [queryId |-> effects'.queryId, status |-> "FETCHING",
                                     adjustment |-> TRUE, chartSchema |-> undefined]
             /\ DOMAIN chartDetails' = DOMAIN chartDetails \cup {id}
             /\ \A k \in DOMAIN chartDetails \ {id} : chartDetails'[k] = chartDetails[k]
             /\ effects'.registered.tracker = "chartAdjustmentBackgroundTracker"
             /\ effects'.registered.id = id
             /\ effects'.registered.detail = chartDetails'[id]
             /\ Times(trace', "chartBackgroundTracker.addTask") = 0
             /\ instances' = instances]_vars

\* C33 witness: response 1 had a finished chart with schema S1; the adjustment
\* carried S1 to the AI service and the chartDetail is now the pending one of
\* the adjustment, while response 2 keeps its finished chart.
C33_Witness ==
    /\ trace # << >>
    /\ trace[Len(trace)] = "return"
    /\ effects.submitted.kind = "chart-adjustment"
    /\ effects.submitted.request.chart_schema = "S1"
    /\ effects.submitted.request.adjustment_option.chart_type = "line"
    /\ effects.registered.id = 1
    /\ chartDetails[1] = PendingChartDetail(effects.queryId, TRUE)
    /\ 2 \in DOMAIN chartDetails
    /\ chartDetails[2].status = "FINISHED"

\* The most recent operation made its submission and the submission failed.
SubmissionRejected(t) == Len(t) = 3 /\ t[3] = "throw adaptor"

\* C38: when the submission of generateThreadResponseBreakdown,
\* generateThreadResponseChart or adjustThreadResponseChart rejects, the call
\* ends with that error after the lookup and the submission, with no updateOne
\* and no addTask; the persisted details and the task sets are as before.
C38_FailedSubmissionChangesNothing ==
    [][\A id \in 1..Len(responseStore) :
          (\/ generateThreadResponseBreakdownRejected(id)
           \/ GenerateStoredChart(id, FALSE)
           \/ \E input \in ChartAdjustmentOptions : AdjustStoredChart(id, input, FALSE))
          => /\ SubmissionRejected(trace')
             /\ trace'[1] = "threadResponseRepository.findOneBy"
             /\ trace'[2] \in {"wrenAIAdaptor.generateAskDetail", "wrenAIAdaptor.generateChart",
                               "wrenAIAdaptor.adjustChart"}
             /\ effects'.written = NoWrite
             /\ effects'.registered = NoRegistration
             /\ effects'.queryId = 0
             /\ chartDetails' = chartDetails
             /\ answerDetails' = answerDetails
             /\ responseStore' = responseStore
             /\ db' = db
             /\ tasks' = tasks
             /\ instances' = instances]_vars

\* C38 witness: the adjustment of response 1, which has a finished chart, was
\* submitted and rejected; the finished chart is still stored.
C38_Witness ==
    /\ SubmissionRejected(trace)
    /\ trace[2] = "wrenAIAdaptor.adjustChart"
    /\ effects.submitted.kind = "chart-adjustment"
    /\ effects.submitted.request.chart_schema = "S2"
    /\ 1 \in DOMAIN chartDetails
    /\ chartDetails[1] = FinishedChartDetail(1, "S2")

\* C39: changeThreadResponseAnswerDetailStatus on a stored response whose
\* answerDetail has the requested status makes no updateOne and leaves the
\* answerDetail as it is; otherwise it makes one updateOne whose answerDetail
\* has the requested status and content and the other fields of the stored
\* one, and leaves the details of the other responses alone; after the call the
\* stored status is the requested one, so the same call again writes nothing.
C39_StatusChangeWritesOnce ==
    [][\A id \in 1..Len(responseStore) : \A status \in RequestedStatuses :
          \A content \in RequestedContents :
             ChangeStoredAnswerStatus(id, status, content) =>
                /\ IF id \in DOMAIN answerDetails /\ answerDetails[id].status = status
                   THEN /\ Times(trace', "threadResponseRepository.updateOne") = 0
                        /\ effects'.written = NoWrite
                        /\ answerDetails' = answerDetails
                   ELSE /\ Times(trace', "threadResponseRepository.updateOne") = 1
                        /\ effects'.written.detail = answerDetails'[id]
                        /\ answerDetails'[id].status = status
                        /\ answerDetails'[id].content = content
                        /\ answerDetails'[id].queryId =
                              (IF id \in DOMAIN answerDetails THEN answerDetails[id].queryId
                                                              ELSE undefined)
                        /\ answerDetails'[id].numRowsUsedInLLM =
                              (IF id \in DOMAIN answerDetails
                               THEN answerDetails[id].numRowsUsedInLLM
                               ELSE undefined)
                        /\ \A k \in DOMAIN answerDetails \ {id} :
                              answerDetails'[k] = answerDetails[k]
                /\ trace'[Len(trace')] = "return"
                /\ answerDetails'[id].status = status
                /\ effects'.registered = NoRegistration
                /\ effects'.submitted = NoPayload]_vars

\* C39 witness: the answer of response 1 was FINISHED with content A1; it was
\* set to INTERRUPTED without content, which kept its queryId and row count,
\* and the same call made again has just returned without a write.
C39_Witness ==
    /\ trace = <<"threadResponseRepository.findOneBy", "return">>
    /\ 1 \in DOMAIN answerDetails
    /\ answerDetails[1] = AnswerDetail("INTERRUPTED", undefined, "q7", 3)

====
